---- MODULE Spec2Model ----
(***************************************************************************)
(* Model of the Circle CCTP cross-chain transfer tool                      *)
(* (src/cross-chain-transfer.js): the transfer saga                        *)
(* approve -> burn -> attest -> mint, its recovery entry point, and the    *)
(* two bounded polling loops.                                              *)
(*                                                                         *)
(* One action of the model is one resumption of the async code: it takes   *)
(* the answer of the external call (or prompt) the code is awaiting and    *)
(* runs the code up to the next await, return or throw.                    *)
(*                                                                         *)
(*   run         the run of the tool that Spec follows                     *)
(*   runT, runR  a transfer and a recovery that SpecEq follows side by side*)
(*   call        one call of a helper, with its arguments and result,      *)
(*               that SpecFn follows                                       *)
(*                                                                         *)
(* SpecManager follows, in run, one run of the wallet manager              *)
(* (src/wallet-manager.js); SpecSetup one run of the entity secret setup   *)
(* (src/setup-entity-secret.js).                                           *)
(***************************************************************************)
EXTENDS Integers, Sequences, FiniteSets, TLC

VARIABLES run, runT, runR, call

vars == <<run, runT, runR, call>>

(***************************************************************************)
(* Bounds of the model (not program constants).                            *)
(***************************************************************************)
\* largest USDC balance / amount the environment offers
MaxBalance == 1

(***************************************************************************)
(* Program constants.                                                      *)
(***************************************************************************)
\* waitForTransactionCompletion: const maxAttempts = 40
TxMaxAttempts == 40
\* waitForAttestation: const maxAttempts = 40
AttMaxAttempts == 40
\* USDC has 6 decimals: transferAmount * 1000000
UsdcBaseUnits == 1000000

Undefined == "undefined"

TokenMessenger == "0x9f3B8679c73C2Fef8b59B4f3444d4e156fb70AA5"

\* const SUPPORTED_NETWORKS = { 'ETH': ..., ... }: the keys
SUPPORTED_NETWORKS == {"ETH", "MATIC", "AVAX", "ETH-SEPOLIA", "MATIC-AMOY"}

\* SUPPORTED_NETWORKS[chain].usdcContract
usdcContract(chain) ==
    CASE chain = "ETH" -> "0xA0b86a33E6441d7c4c5e2F4e7A1b7C4e5d6f7e8f"
      [] chain = "MATIC" -> "0x2791Bca1f2de4661ED88A30C99A7a9449Aa84174"
      [] chain = "AVAX" -> "0xB97EF9Ef8734C71904D8002F8b6Bc66Dd9c48a6E"
      [] chain = "ETH-SEPOLIA" -> "0x1c7D4B196Cb0C7B01d743Fbc6116a902379C7238"
      [] chain = "MATIC-AMOY" -> "0x41E94Eb019C0762f9Bfcf9Fb1E58725BfB0e7582"
      [] OTHER -> Undefined

\* a blockchain the custody service knows and the tool does not support
OtherChain == "SOL-DEVNET"

Blockchains == SUPPORTED_NETWORKS \cup {OtherChain}

(***************************************************************************)
(* Pure helpers of the source.                                             *)
(***************************************************************************)
\* the value a throwing lookup yields in the model; callers test for it
Unsupported == "throws: Unsupported blockchain"

\* a faulty variant: the case 'AVAX' is missing
getMessageTransmitterAddress_NoAvax(blockchain) ==
    CASE blockchain = "ETH" -> "0x0a992d191deec32afe36203ad87d7d289a738f81"
      [] blockchain = "MATIC" -> "0xF3be9355363857F3e001be68856A2f96b4C39Ba9"
      [] blockchain = "ETH-SEPOLIA" -> "0x7865fAfC2db2093669d92c0F33AeEF291086BEFD"
      [] blockchain = "MATIC-AMOY" -> "0x7865fAfC2db2093669d92c0F33AeEF291086BEFD"
      [] OTHER -> Unsupported

\* getMessageTransmitterAddress(blockchain)
getMessageTransmitterAddress(blockchain) ==
    CASE blockchain = "ETH" -> "0x0a992d191deec32afe36203ad87d7d289a738f81"
      [] blockchain = "MATIC" -> "0xF3be9355363857F3e001be68856A2f96b4C39Ba9"
      [] blockchain = "AVAX" -> "0x8186359aF5F57FbB40c6b14A588d2A59C0C29880"
      [] blockchain = "ETH-SEPOLIA" -> "0x7865fAfC2db2093669d92c0F33AeEF291086BEFD"
      [] blockchain = "MATIC-AMOY" -> "0x7865fAfC2db2093669d92c0F33AeEF291086BEFD"
      [] OTHER -> Unsupported

\* the domain id of a chain getCCTPDomainId throws for
NoDomain == -1

\* a faulty variant: no default case, an unknown chain gets domain 0
getCCTPDomainId_NoDefault(blockchain) ==
    CASE blockchain = "MATIC" -> 7
      [] blockchain = "AVAX" -> 1
      [] blockchain = "MATIC-AMOY" -> 7
      [] OTHER -> 0

\* getCCTPDomainId(blockchain); NoDomain stands for the thrown error
getCCTPDomainId(blockchain) ==
    CASE blockchain = "ETH" -> 0
      [] blockchain = "MATIC" -> 7
      [] blockchain = "AVAX" -> 1
      [] blockchain = "ETH-SEPOLIA" -> 0
      [] blockchain = "MATIC-AMOY" -> 7
      [] OTHER -> NoDomain

\* a string is a sequence of one-character strings
RECURSIVE Repeat(_, _)
Repeat(c, n) == IF n <= 0 THEN <<>> ELSE <<c>> \o Repeat(c, n - 1)

\* String.prototype.replace(/^0x/, '')
StripHexPrefix(s) ==
    IF Len(s) >= 2 /\ s[1] = "0" /\ s[2] = "x" THEN SubSeq(s, 3, Len(s)) ELSE s

\* String.prototype.padStart(n, c)
padStart(s, n, c) == Repeat(c, n - Len(s)) \o s

\* addressToBytes32(address)
addressToBytes32(address) == <<"0", "x">> \o padStart(StripHexPrefix(address), 64, "0")

\* no helper was called yet
NoCall ==
    [fn |-> "none", chain |-> "", domain |-> NoDomain, threw |-> FALSE,
     prevChain |-> "", prevDomain |-> NoDomain,
     address |-> <<>>, bytes32 |-> <<>>, again |-> FALSE,
     walletSetsResponse |-> [kind |-> "none", hasData |-> FALSE, walletSets |-> <<>>],
     listings |-> <<>>, wallets |-> <<>>,
     balanceResponse |-> [kind |-> "none", hasData |-> FALSE, tokenBalances |-> <<>>],
     tokenBalances |-> <<>>, balance |-> 0]

\* getCCTPDomainId(chain) is called, after a call of it or of nothing
CallGetCCTPDomainId(c, chain) ==
    [NoCall EXCEPT !.fn = "getCCTPDomainId", !.chain = chain,
                   !.domain = getCCTPDomainId(chain),
                   !.threw = (getCCTPDomainId(chain) = NoDomain),
                   !.prevChain = IF c.fn = "getCCTPDomainId" THEN c.chain ELSE "",
                   !.prevDomain = IF c.fn = "getCCTPDomainId" THEN c.domain ELSE NoDomain]

\* addressToBytes32(address) is called: it has no throw statement
CallAddressToBytes32(address, again) ==
    [NoCall EXCEPT !.fn = "addressToBytes32", !.address = address,
                   !.bytes32 = addressToBytes32(address), !.again = again]

(***************************************************************************)
(* Values of the environment: wallets, prompts, service responses.         *)
(***************************************************************************)
\* a 20-byte hex address with the "0x" prefix, as the custody service gives
Addr(d) == <<"0", "x">> \o Repeat(d, 40)

\* a wallet as client.listWallets gives it
Wallet(id, d, chain, state) ==
    [id |-> id, address |-> Addr(d), blockchain |-> chain, state |-> state,
     walletSetName |-> Undefined, walletSetId |-> Undefined]

\* a wallet set as client.listWalletSets gives it
WalletSet(id, name) == [id |-> id, name |-> name]

S1 == WalletSet("ws1", "Set one")
S2 == WalletSet("ws2", "Set two")

\* wallet.walletSetName = walletSet.name; wallet.walletSetId = walletSet.id
Annotate(wallet, walletSet) ==
    [wallet EXCEPT !.walletSetName = walletSet.name, !.walletSetId = walletSet.id]

\* supportedWallets[i] for an index that selects nothing (JS undefined)
NoWallet ==
    [id |-> Undefined, address |-> <<>>, blockchain |-> Undefined, state |-> Undefined,
     walletSetName |-> Undefined, walletSetId |-> Undefined]

\* the wallets of the two sets, as getAllWallets returns them
W1 == Annotate(Wallet("w1", "1", "ETH-SEPOLIA", "LIVE"), S1)
W2 == Annotate(Wallet("w2", "2", "MATIC-AMOY", "LIVE"), S2)
W3 == Annotate(Wallet("w3", "3", "AVAX", "LIVE"), S2)
W4 == Annotate(Wallet("w4", "4", "MATIC-AMOY", "FROZEN"), S1)
W5 == Annotate(Wallet("w5", "5", OtherChain, "LIVE"), S1)
W6 == Annotate(Wallet("w6", "6", "ETH-SEPOLIA", "LIVE"), S1)
W7 == Annotate(Wallet("w7", "7", "ETH", "LIVE"), S2)

\* a wallet as listed, before getAllWallets annotates it
Listed(w) == [w EXCEPT !.walletSetName = Undefined, !.walletSetId = Undefined]

\* client.listWalletSets(): rejects, resolves without data, or resolves with
\* the wallet sets
NoSets == [kind |-> "ok", hasData |-> FALSE, walletSets |-> <<>>]
SetsThrow == [kind |-> "throw", hasData |-> FALSE, walletSets |-> <<>>]
Sets(walletSets) == [kind |-> "ok", hasData |-> TRUE, walletSets |-> walletSets]

ListSetsResponses == {SetsThrow, NoSets, Sets(<<>>), Sets(<<S1>>), Sets(<<S1, S2>>)}

\* client.listWallets({walletSetId}): rejects, resolves without data, or
\* resolves with the wallets of the set
NoListing == [kind |-> "ok", hasData |-> FALSE, wallets |-> <<>>]
ListingThrows == [kind |-> "throw", hasData |-> FALSE, wallets |-> <<>>]
Listing(wallets) ==
    [kind |-> "ok", hasData |-> TRUE,
     wallets |-> [i \in 1..Len(wallets) |-> Listed(wallets[i])]]

ListWalletsResponses(walletSetId) ==
    {ListingThrows, NoListing, Listing(<<>>)}
    \cup (IF walletSetId = S1.id
          THEN {Listing(<<W1>>), Listing(<<W1, W6>>), Listing(<<W4, W5, W1>>)}
          ELSE {Listing(<<W2>>), Listing(<<W3>>), Listing(<<W7>>)})

\* the answers of listWallets, per wallet set id
Listings(first, second) == [id \in {S1.id, S2.id} |-> IF id = S1.id THEN first ELSE second]

\* the for loop of getAllWallets over the wallet sets: a listing that
\* rejects is logged as a warning and skipped; the wallets of the others are
\* annotated and pushed
RECURSIVE WalletsOfSets(_, _)
WalletsOfSets(walletSets, listings) ==
    IF walletSets = <<>>
    THEN <<>>
    ELSE LET walletSet == Head(walletSets)
             walletsResponse == listings[walletSet.id]
             wallets == IF walletsResponse.kind = "throw" \/ ~walletsResponse.hasData
                        THEN <<>>
                        ELSE walletsResponse.wallets
         IN  [i \in 1..Len(wallets) |-> Annotate(wallets[i], walletSet)]
                 \o WalletsOfSets(Tail(walletSets), listings)

\* a faulty variant: without the inner try, a listing that rejects is caught
\* by the outer catch and nothing is returned
getAllWallets_NoInnerCatch(walletSetsResponse, listings) ==
    IF walletSetsResponse.kind = "throw" \/ ~walletSetsResponse.hasData
    THEN <<>>
    ELSE IF \E i \in 1..Len(walletSetsResponse.walletSets) :
                listings[walletSetsResponse.walletSets[i].id].kind = "throw"
         THEN <<>>
         ELSE WalletsOfSets(walletSetsResponse.walletSets, listings)

\* getAllWallets(): listWalletSets, then listWallets per set; catch: return []
getAllWallets(walletSetsResponse, listings) ==
    IF walletSetsResponse.kind = "throw"
    THEN <<>>
    ELSE LET walletSets == IF walletSetsResponse.hasData
                           THEN walletSetsResponse.walletSets
                           ELSE <<>>
         IN  IF Len(walletSets) = 0 THEN <<>> ELSE WalletsOfSets(walletSets, listings)

\* a token as client.getWalletTokenBalance gives it: symbol and name may be
\* missing; the name is kept character by character
Token(symbol, hasName, name) ==
    [present |-> TRUE, symbol |-> symbol, hasName |-> hasName, name |-> name]

\* a balance entry without a token
NoToken == [present |-> FALSE, symbol |-> Undefined, hasName |-> FALSE, name |-> <<>>]

UsdCoin == <<"U", "S", "D", " ", "C", "o", "i", "n">>

Tokens ==
    {Token("USDC", TRUE, UsdCoin),
     Token("USDC", FALSE, <<>>),
     Token("USDC.e", TRUE, <<"B", "r", "i", "d", "g", "e", "d", " ", "U", "S", "D", " ", "C", "o", "i", "n">>),
     Token("ETH", TRUE, <<"E", "t", "h", "e", "r">>),
     Token("usdc", TRUE, <<"u", "s", "d", " ", "c", "o", "i", "n">>),
     Token(Undefined, FALSE, <<>>),
     NoToken}

Digits == <<"0", "1", "2", "3", "4", "5", "6", "7", "8", "9">>

\* the amount of a balance entry: a decimal string
AmountStrings == {<<Digits[k + 1]>> : k \in 0..MaxBalance} \cup {<<"1", ".", "0">>}

TokenBalance(token, amount) == [token |-> token, amount |-> amount]

TokenBalances == {TokenBalance(token, amount) : token \in Tokens, amount \in AmountStrings}

\* client.getWalletTokenBalance({id}): rejects, resolves without data, or
\* resolves with up to two balance entries
BalanceThrows == [kind |-> "throw", hasData |-> FALSE, tokenBalances |-> <<>>]
NoBalances == [kind |-> "ok", hasData |-> FALSE, tokenBalances |-> <<>>]
Balances(tokenBalances) == [kind |-> "ok", hasData |-> TRUE, tokenBalances |-> tokenBalances]

BalanceResponses ==
    {BalanceThrows, NoBalances, Balances(<<>>)}
    \cup {Balances(<<b>>) : b \in TokenBalances}
    \cup {Balances(<<a, b>>) : a \in TokenBalances, b \in TokenBalances}

\* getWalletBalance(walletId): data?.tokenBalances || []; catch: return []
getWalletBalance(balanceResponse) ==
    IF balanceResponse.kind = "throw"
    THEN <<>>
    ELSE IF balanceResponse.hasData THEN balanceResponse.tokenBalances ELSE <<>>

\* String.prototype.includes
RECURSIVE includes(_, _)
includes(str, searchString) ==
    IF Len(searchString) > Len(str)
    THEN FALSE
    ELSE IF SubSeq(str, 1, Len(searchString)) = searchString
         THEN TRUE
         ELSE includes(Tail(str), searchString)

\* a faulty variant: only the symbol is looked at
IsUSDC_SymbolOnly(balance) ==
    balance.token.present /\ balance.token.symbol = "USDC"

\* balance.token?.symbol === 'USDC' || balance.token?.name?.includes('USD Coin')
IsUSDC(balance) ==
    balance.token.present
    /\ \/ balance.token.symbol = "USDC"
       \/ balance.token.hasName /\ includes(balance.token.name, UsdCoin)

\* tokenBalances.find(...): the first entry that matches, as a list of at
\* most one entry
RECURSIVE FindUSDC(_)
FindUSDC(tokenBalances) ==
    IF tokenBalances = <<>>
    THEN <<>>
    ELSE IF IsUSDC(Head(tokenBalances))
         THEN <<Head(tokenBalances)>>
         ELSE FindUSDC(Tail(tokenBalances))

IsDigit(c) == \E d \in 1..Len(Digits) : Digits[d] = c
DigitValue(c) == (CHOOSE d \in 1..Len(Digits) : Digits[d] = c) - 1

RECURSIVE DecimalValue(_, _)
DecimalValue(chars, value) ==
    IF chars = <<>> \/ ~IsDigit(Head(chars))
    THEN value
    ELSE DecimalValue(Tail(chars), value * Len(Digits) + DigitValue(Head(chars)))

\* parseFloat of a decimal string that starts with a digit and has no
\* fraction other than zeros: the value of its leading digits
parseFloat(amount) == DecimalValue(amount, 0)

\* findUSDCBalance(tokenBalances)
findUSDCBalance(tokenBalances) ==
    LET usdcBalance == FindUSDC(tokenBalances)
    IN  IF usdcBalance # <<>> THEN parseFloat(usdcBalance[1].amount) ELSE 0

\* what the user types at a prompt, character by character
Whitespace == {" ", "\t"}

RECURSIVE trimStart(_)
trimStart(str) ==
    IF str # <<>> /\ Head(str) \in Whitespace THEN trimStart(Tail(str)) ELSE str

RECURSIVE trimEnd(_)
trimEnd(str) ==
    IF str # <<>> /\ str[Len(str)] \in Whitespace
    THEN trimEnd(SubSeq(str, 1, Len(str) - 1))
    ELSE str

\* String.prototype.trim
trim(str) == trimEnd(trimStart(str))

\* askQuestion(question): resolve(answer.trim())
askQuestion(answer) == trim(answer)

UpperCase == <<"A", "B", "C", "D", "E", "F", "G", "H", "I", "J", "K", "L", "M", "N", "O", "P", "Q", "R", "S", "T", "U", "V", "W", "X", "Y", "Z">>
LowerCase == <<"a", "b", "c", "d", "e", "f", "g", "h", "i", "j", "k", "l", "m", "n", "o", "p", "q", "r", "s", "t", "u", "v", "w", "x", "y", "z">>

\* String.prototype.toLowerCase
toLowerCase(str) ==
    [i \in 1..Len(str) |->
        IF \E k \in 1..Len(UpperCase) : UpperCase[k] = str[i]
        THEN LowerCase[CHOOSE k \in 1..Len(UpperCase) : UpperCase[k] = str[i]]
        ELSE str[i]]

\* what is typed at "Confirm this cross-chain transfer? (yes/no): "
Confirmations ==
    {<<"y", "e", "s">>, <<"Y", "E", "S">>, <<"Y", "e", "s">>, <<" ", "y", " ">>, <<"Y">>,
     <<"y", "E", "S", "\t">>, <<"n", "o">>, <<"n">>, <<"y", "e">>, <<"y", "y">>,
     <<"y", "e", "s", " ", "p", "l", "e", "a", "s", "e">>, <<>>, <<" ", " ">>}

\* what the custody service answers to the listings of one run
Scenario(walletSetsResponse, first, second) ==
    [sets |-> walletSetsResponse, listings |-> Listings(first, second)]

WalletScenarios ==
    {Scenario(SetsThrow, NoListing, NoListing),
     Scenario(Sets(<<>>), NoListing, NoListing),
     Scenario(Sets(<<S1>>), Listing(<<W1>>), NoListing),
     Scenario(Sets(<<S1>>), Listing(<<W1, W6>>), NoListing),
     Scenario(Sets(<<S1, S2>>), Listing(<<W1>>), Listing(<<W2>>)),
     Scenario(Sets(<<S1, S2>>), Listing(<<W1>>), Listing(<<W7>>)),
     Scenario(Sets(<<S1, S2>>), Listing(<<W4, W5, W1>>), Listing(<<W3>>)),
     Scenario(Sets(<<S1, S2>>), ListingThrows, Listing(<<W2>>)),
     Scenario(Sets(<<S1, S2>>), Listing(<<W1>>), ListingThrows)}

\* the lists getAllWallets returns in these
WalletLists == {getAllWallets(e.sets, e.listings) : e \in WalletScenarios}

\* burn transaction hashes the user may type in the recovery
Hashes == {"0xb1", "0xb2"}

\* a hash, or the empty string, character by character
Spell(hash) ==
    CASE hash = "0xb1" -> <<"0", "x", "b", "1">>
      [] hash = "0xb2" -> <<"0", "x", "b", "2">>
      [] hash = "" -> <<>>

\* the string a text spells
HashText(chars) == CHOOSE hash \in Hashes \cup {""} : Spell(hash) = chars

\* what is typed at "Enter the burn transaction hash: "
TypedHashes ==
    {Spell(hash) : hash \in Hashes}
    \cup {<<" ">> \o Spell("0xb1") \o <<" ">>, <<>>, <<" ">>, <<" ", "\t", " ">>}

\* a number typed at a prompt, after parseInt / parseFloat
Num(v) == [isNaN |-> FALSE, val |-> v]
NaN == [isNaN |-> TRUE, val |-> 0]

\* parseInt of a trimmed answer: an optional sign and the leading decimal
\* digits; NaN when there is no digit there
parseInt(str) ==
    LET signed == str # <<>> /\ Head(str) \in {"+", "-"}
        digits == IF signed THEN Tail(str) ELSE str
    IN  IF digits = <<>> \/ ~IsDigit(Head(digits))
        THEN NaN
        ELSE IF signed /\ Head(str) = "-"
             THEN Num(0 - DecimalValue(digits, 0))
             ELSE Num(DecimalValue(digits, 0))

\* a small number as it is typed
Typed(k) == <<Digits[k + 1]>>

\* answers to "Select ... wallet (1-n)", as typed
Choices(n) ==
    {Typed(k) : k \in 0..(n + 1)}
    \cup {<<>>, <<"a", "b", "c">>, <<"-", "1">>, <<" ", "2", " ">>}

\* answers to "Select source blockchain (1-2)", as typed
SourceChoices == {Typed(1), Typed(2), Typed(3), <<" ", "1">>}

\* the answer read at a wallet prompt
Selection(prompt, answer) == [prompt |-> prompt, answer |-> answer]

\* answers to "Enter USDC amount to transfer"
Amounts == {NaN} \cup {Num(k) : k \in 0..(MaxBalance + 1)}

\* transaction ids the custody service hands out, one per created transaction
TxIds == <<"tx-1", "tx-2", "tx-3">>

\* client.createContractExecutionTransaction, the n-th of the run: rejects,
\* resolves without an id, or resolves with data.id
CreateResponses(n) ==
    {[kind |-> "throw", id |-> Undefined],
     [kind |-> "ok", id |-> Undefined],
     [kind |-> "ok", id |-> TxIds[n]]}

\* the hash under which a created transaction is on chain
HashOf(txId) ==
    CASE txId = "tx-1" -> "0xa1"
      [] txId = "tx-2" -> "0xb1"
      [] OTHER -> "0xc1"

\* client.getTransaction({id: txId}): rejects, resolves without a transaction,
\* or resolves with the transaction in some state, with or without its hash
TxStates == {"INITIATED", "SENT", "CONFIRMED", "COMPLETE", "FAILED"}

TxResponses(txId) ==
    {[kind |-> "throw", state |-> Undefined, txHash |-> Undefined],
     [kind |-> "notx", state |-> Undefined, txHash |-> Undefined]}
    \cup [kind : {"tx"}, state : TxStates, txHash : {HashOf(txId), Undefined}]

\* the empty string / a missing field of an attestation message
Empty == <<>>

\* what the attestation service holds for the burn it was asked about
MsgOf(key) == <<"message", key[1], key[2]>>
SigOf(key) == <<"attestation", key[1], key[2]>>

\* one element of data.messages
MessagesOf(key) == [message : {Empty, MsgOf(key)}, attestation : {Empty, SigOf(key)}]

\* fetch(`${apiHost}/v1/messages/${sourceDomainId}/${burnTxHash}`): rejects,
\* resolves with a non-success status, resolves with a body that is not JSON,
\* or resolves with JSON data whose messages are missing, empty or present
AttResponses(key) ==
    {[kind |-> "throw", status |-> 0, hasMessages |-> FALSE, messages |-> <<>>],
     [kind |-> "badjson", status |-> 200, hasMessages |-> FALSE, messages |-> <<>>]}
    \cup [kind : {"http"}, status : {400, 404, 500}, hasMessages : {FALSE}, messages : {<<>>}]
    \cup [kind : {"ok"}, status : {200}, hasMessages : {FALSE}, messages : {<<>>}]
    \cup [kind : {"ok"}, status : {200}, hasMessages : {TRUE},
          messages : {<<>>} \cup {<<m>> : m \in MessagesOf(key)}
                     \cup {<<m, n>> : m \in MessagesOf(key), n \in {[message |-> MsgOf(key), attestation |-> SigOf(key)]}}]

NoAttestation == [message |-> Empty, attestation |-> Empty]

\* getWalletBalance(id) is called, the custody service answers, and
\* findUSDCBalance is applied to what it returns
CallFindUSDCBalance(balanceResponse) ==
    [NoCall EXCEPT !.fn = "findUSDCBalance", !.balanceResponse = balanceResponse,
                   !.tokenBalances = getWalletBalance(balanceResponse),
                   !.balance = findUSDCBalance(getWalletBalance(balanceResponse))]

\* getAllWallets() is called and the custody service answers its requests
CallGetAllWallets(walletSetsResponse, listings) ==
    [NoCall EXCEPT !.fn = "getAllWallets", !.walletSetsResponse = walletSetsResponse,
                   !.listings = listings,
                   !.wallets = getAllWallets(walletSetsResponse, listings)]

(***************************************************************************)
(* The two polling loops: one iteration each, and the loop condition.      *)
(***************************************************************************)
\* the outcome of one loop iteration: return a value, or go round again;
\* log is the console line that tells the outcomes apart
Returned(v, a, l) == [ret |-> TRUE, value |-> v, attempts |-> a, log |-> l]
Again(v, a, l) == [ret |-> FALSE, value |-> v, attempts |-> a, log |-> l]

\* a faulty variant: one attempt too many
TxLoopRuns_OffByOne(attempts) == attempts <= TxMaxAttempts

\* a faulty variant: while (true)
TxLoopRuns_Forever(attempts) == attempts >= 0

\* while (attempts < maxAttempts) of waitForTransactionCompletion
TxLoopRuns(attempts) == attempts < TxMaxAttempts

\* a faulty variant: any state the transaction reports ends the loop
waitForTransactionCompletion_AnyState(attempts, resp) ==
    IF resp.kind = "throw"
    THEN Again(Undefined, attempts + 1, "Could not check transaction status")
    ELSE IF resp.kind = "tx"
         THEN Returned(resp.txHash, attempts, "Current state")
         ELSE Again(Undefined, attempts + 1, "Current state")

\* a faulty variant: a CONFIRMED transaction without a hash is polled again
waitForTransactionCompletion_NeedsHash(attempts, resp) ==
    IF resp.kind = "throw"
    THEN Again(Undefined, attempts + 1, "Could not check transaction status")
    ELSE IF resp.kind = "tx" /\ resp.state = "CONFIRMED" /\ resp.txHash # Undefined
         THEN Returned(resp.txHash, attempts, "Current state")
         ELSE Again(Undefined, attempts + 1, "Current state")

\* a faulty variant: a FAILED transaction ends the poll as a confirmed one
waitForTransactionCompletion_StopsOnFailed(attempts, resp) ==
    IF resp.kind = "throw"
    THEN Again(Undefined, attempts + 1, "Could not check transaction status")
    ELSE IF resp.kind = "tx" /\ resp.state \in {"CONFIRMED", "FAILED"}
         THEN Returned(resp.txHash, attempts, "Current state")
         ELSE Again(Undefined, attempts + 1, "Current state")

\* waitForTransactionCompletion: the body of the loop for one status response
waitForTransactionCompletion(attempts, resp) ==
    IF resp.kind = "throw"
    THEN Again(Undefined, attempts + 1, "Could not check transaction status")
    ELSE IF resp.kind = "tx" /\ resp.state = "CONFIRMED"
         THEN Returned(resp.txHash, attempts, "Current state")
         ELSE Again(Undefined, attempts + 1, "Current state")

\* a faulty variant: one attempt too many
AttLoopRuns_OffByOne(attempts) == attempts <= AttMaxAttempts

\* while (attempts < maxAttempts) of waitForAttestation
AttLoopRuns(attempts) == attempts < AttMaxAttempts

\* a faulty variant: continue on 404 without attempts++
waitForAttestation_404NotCounted(attempts, resp) ==
    IF resp.kind = "throw" \/ resp.kind = "badjson"
    THEN Again(NoAttestation, attempts + 1, "Could not check attestation status")
    ELSE IF resp.kind = "http"
         THEN IF resp.status = 404
              THEN Again(NoAttestation, attempts, "Message not found yet")
              ELSE Again(NoAttestation, attempts + 1, "Could not check attestation status")
         ELSE IF resp.hasMessages /\ Len(resp.messages) > 0
              THEN IF resp.messages[1].attestation # Empty
                   THEN Returned([message |-> resp.messages[1].message,
                                  attestation |-> resp.messages[1].attestation],
                                 attempts, "Attestation received")
                   ELSE Again(NoAttestation, attempts + 1, "attestation not ready yet")
              ELSE Again(NoAttestation, attempts + 1, "Message found")

\* a faulty variant: attempts++ before the throw and again in the catch
waitForAttestation_ErrorCountsTwice(attempts, resp) ==
    IF resp.kind = "throw" \/ resp.kind = "badjson"
    THEN Again(NoAttestation, attempts + 1, "Could not check attestation status")
    ELSE IF resp.kind = "http"
         THEN IF resp.status = 404
              THEN Again(NoAttestation, attempts + 1, "Message not found yet")
              ELSE Again(NoAttestation, attempts + 2, "Could not check attestation status")
         ELSE IF resp.hasMessages /\ Len(resp.messages) > 0
              THEN IF resp.messages[1].attestation # Empty
                   THEN Returned([message |-> resp.messages[1].message,
                                  attestation |-> resp.messages[1].attestation],
                                 attempts, "Attestation received")
                   ELSE Again(NoAttestation, attempts + 1, "attestation not ready yet")
              ELSE Again(NoAttestation, attempts + 1, "Message found")

\* a faulty variant: the loop returns once message.message is there
waitForAttestation_ChecksMessage(attempts, resp) ==
    IF resp.kind = "throw" \/ resp.kind = "badjson"
    THEN Again(NoAttestation, attempts + 1, "Could not check attestation status")
    ELSE IF resp.kind = "http"
         THEN IF resp.status = 404
              THEN Again(NoAttestation, attempts + 1, "Message not found yet")
              ELSE Again(NoAttestation, attempts + 1, "Could not check attestation status")
         ELSE IF resp.hasMessages /\ Len(resp.messages) > 0
              THEN IF resp.messages[1].message # Empty
                   THEN Returned([message |-> resp.messages[1].message,
                                  attestation |-> resp.messages[1].attestation],
                                 attempts, "Attestation received")
                   ELSE Again(NoAttestation, attempts + 1, "attestation not ready yet")
              ELSE Again(NoAttestation, attempts + 1, "Message found")

\* waitForAttestation: the body of the loop for one fetch outcome
waitForAttestation(attempts, resp) ==
    IF resp.kind = "throw" \/ resp.kind = "badjson"
    THEN Again(NoAttestation, attempts + 1, "Could not check attestation status")
    ELSE IF resp.kind = "http"
         THEN IF resp.status = 404
              THEN Again(NoAttestation, attempts + 1, "Message not found yet")
              ELSE Again(NoAttestation, attempts + 1, "Could not check attestation status")
         ELSE IF resp.hasMessages /\ Len(resp.messages) > 0
              THEN IF resp.messages[1].attestation # Empty
                   THEN Returned([message |-> resp.messages[1].message,
                                  attestation |-> resp.messages[1].attestation],
                                 attempts, "Attestation received")
                   ELSE Again(NoAttestation, attempts + 1, "attestation not ready yet")
              ELSE Again(NoAttestation, attempts + 1, "Message found")

(***************************************************************************)
(* The state of one run of the tool.                                       *)
(*   pc      what the code is awaiting: "init", "menu", a prompt, "create" *)
(*           (createContractExecutionTransaction), "poll"                  *)
(*           (waitForTransactionCompletion), "attest" (waitForAttestation) *)
(*           or "done"                                                     *)
(*   step    the saga step "create" and "poll" belong to                   *)
(*   calls   the custody transactions submitted so far, in order           *)
(*   trace   the saga's steps so far, in order                             *)
(*   ids     what each createContractExecutionTransaction answered         *)
(*   observed  the steps whose poll was answered with success              *)
(*   loop, queries, answer, firstConfirmed, firstHash, firstAttested       *)
(*           observations of the poll loop entered last: the requests it   *)
(*           made,                                                         *)
(*           the kind of the last answer, and the request that was first   *)
(*           answered with success (and the hash that answer carried)      *)
(*   shown   the transfer as the confirmation screen displayed it          *)
(*   reported  the amount the success message of the transfer names        *)
(*   signal  SIGINT was delivered to the process                           *)
(*   pending the external requests (custody calls, attestation fetches)    *)
(*           made and not yet answered                                     *)
(*   active  the poll loops entered and not yet left                       *)
(*   exit    "running", or the exit code of the process                    *)
(***************************************************************************)
InitRun ==
    [pc |-> "init", mode |-> "none", step |-> "none",
     supportedWallets |-> <<>>, destinationWallets |-> <<>>,
     sourceWallet |-> NoWallet, destinationWallet |-> NoWallet,
     sourceUSDCBalance |-> 0, transferAmount |-> 0,
     sourceBlockchain |-> Undefined,
     approvalTxHash |-> Undefined, burnTxHash |-> Undefined, mintTxHash |-> Undefined,
     txId |-> Undefined, attKey |-> <<NoDomain, Undefined>>,
     attestation |-> NoAttestation, attempts |-> 0,
     calls |-> <<>>, trace |-> <<>>, ids |-> <<>>, observed |-> {},
     loop |-> "none", queries |-> 0, answer |-> "", firstConfirmed |-> 0, firstHash |-> Undefined,
     firstAttested |-> 0,
     shown |-> [source |-> NoWallet, destination |-> NoWallet, amount |-> 0],
     reported |-> 0, signal |-> FALSE, pending |-> 0, active |-> {},
     confirmation |-> <<>>, allWallets |-> <<>>, sourceChoice |-> <<>>, selection |-> Selection("none", <<>>),
     log |-> "", error |-> "", outcome |-> "none", exit |-> "running"]

\* the function returns to main, which closes readline and ends: exit code 0
Return(s, outcome) == [s EXCEPT !.pc = "done", !.outcome = outcome, !.exit = "0"]

\* the messages of the errors the code throws, and of those thrown at it
TxTimeout == "Timeout waiting for transaction completion"
AttTimeout == "Timeout waiting for attestation"
CreateFailed == "Failed to create transaction"
ApiError == "error of the custody API"
TypeError == "Cannot read properties of undefined"

\* an error leaves the function: main().catch logs it and calls process.exit(1)
Crash(s, error) ==
    [s EXCEPT !.pc = "done", !.error = error, !.outcome = "Unexpected error", !.exit = "1"]

\* a faulty variant: the handler says goodbye and forgets process.exit(0)
Sigint_NoExit(s) == [s EXCEPT !.signal = TRUE, !.outcome = "Goodbye!"]

\* process.on('SIGINT', ...): log, rl.close(), process.exit(0)
Sigint(s) == [s EXCEPT !.signal = TRUE, !.outcome = "Goodbye!", !.pc = "done", !.exit = "0"]

\* an external request is made and awaited / its answer is taken
Requested(s) == [s EXCEPT !.pending = @ + 1]
Answered(s) == [s EXCEPT !.pending = @ - 1]

\* a poll loop is left, by return or by its timeout
LeaveLoop(s) == [s EXCEPT !.active = @ \ {s.loop}]

\* await new Promise(resolve => setTimeout(resolve, ...)), then the next request
PollAgain(s) == Requested(s)

Emit(s, what, step) == [s EXCEPT !.trace = Append(@, <<what, step>>)]

\* await client.createContractExecutionTransaction(request): the request is sent
SubmitTx(s, request, step) ==
    [Requested(Emit(s, "submit", step)) EXCEPT !.calls = Append(@, request), !.pc = "create",
                                               !.step = step]

\* a poll loop is entered: let attempts = 0, and nothing is observed of it yet
EnterLoop(s) ==
    [s EXCEPT !.attempts = 0, !.queries = 0, !.answer = "", !.firstConfirmed = 0,
              !.firstHash = Undefined, !.firstAttested = 0, !.log = ""]

\* waitForTransactionCompletion(txId, step) is entered
StartTxPoll(s, txId, step) ==
    [Requested(EnterLoop(Emit(s, "poll", step))) EXCEPT
        !.pc = "poll", !.step = step, !.loop = step, !.txId = txId, !.active = @ \cup {step}]

\* waitForAttestation(burnTxHash, sourceBlockchain) is entered: let attempts = 0
\* and sourceDomainId = getCCTPDomainId(sourceBlockchain), which may throw
StartAttestation(s, burnTxHash, sourceBlockchain) ==
    IF getCCTPDomainId(sourceBlockchain) = NoDomain
    THEN [s EXCEPT !.pc = "thrown"]
    ELSE [Requested(EnterLoop(Emit(s, "attest", "start"))) EXCEPT
             !.pc = "attest", !.step = "Attestation", !.loop = "Attestation",
             !.active = @ \cup {"Attestation"},
             !.attKey = <<getCCTPDomainId(sourceBlockchain), burnTxHash>>]

\* a status response that reports the CONFIRMED state
IsConfirmed(resp) == resp.kind = "tx" /\ resp.state = "CONFIRMED"

\* a fetch outcome whose first message carries an attestation
HasAttestation(resp) ==
    resp.kind = "ok" /\ resp.hasMessages /\ Len(resp.messages) > 0
    /\ resp.messages[1].attestation # Empty

\* the kind of a status response
TxAnswer(resp) ==
    CASE resp.kind # "tx" -> resp.kind
      [] resp.state \in {"CONFIRMED", "FAILED"} -> resp.state
      [] OTHER -> "pending"

\* the kind of a fetch outcome
AttAnswer(resp) ==
    CASE resp.kind \in {"throw", "badjson"} -> "throw"
      [] resp.kind = "http" /\ resp.status = 404 -> "404"
      [] resp.kind = "http" -> "http error"
      [] ~resp.hasMessages \/ Len(resp.messages) = 0 -> "no messages"
      [] resp.messages[1].attestation = Empty -> "no attestation"
      [] OTHER -> "attestation"

\* one status query of the running poll was made and answered with resp
ObserveTx(s, resp, it) ==
    [Answered(s) EXCEPT !.attempts = it.attempts, !.log = it.log, !.queries = @ + 1,
              !.answer = TxAnswer(resp),
              !.observed = IF IsConfirmed(resp) THEN @ \cup {s.step} ELSE @,
              !.firstConfirmed = IF @ = 0 /\ IsConfirmed(resp) THEN s.queries + 1 ELSE @,
              !.firstHash = IF s.firstConfirmed = 0 /\ IsConfirmed(resp) THEN resp.txHash ELSE @]

\* one attestation request of the running poll was made and answered with resp
ObserveAtt(s, resp, it) ==
    [Answered(s) EXCEPT !.attempts = it.attempts, !.log = it.log, !.queries = @ + 1,
              !.answer = AttAnswer(resp),
              !.observed = IF HasAttestation(resp) THEN @ \cup {s.step} ELSE @,
              !.firstAttested = IF @ = 0 /\ HasAttestation(resp) THEN s.queries + 1 ELSE @]

\* createContractExecutionTransaction answered with resp
ObserveCreate(s, resp) ==
    [Answered(s) EXCEPT !.ids = Append(@, resp.id), !.confirmation = <<>>]

(***************************************************************************)
(* performCrossChainTransfer: the saga (the inner try block).              *)
(* Decimal strings ((x).toString()) are written as the number they spell.  *)
(***************************************************************************)
\* catch (transferError): log, troubleshooting tips, return
TransferFailed(s, error) == Return([s EXCEPT !.error = error], "Cross-chain transfer failed")

\* catch (error) of the outer try: log, return
TransferError(s, error) == Return([s EXCEPT !.error = error], "Error during cross-chain transfer")

\* Step 1: the approve(address,uint256) request
ApprovalRequest(s) ==
    [walletId |-> s.sourceWallet.id,
     contractAddress |-> usdcContract(s.sourceWallet.blockchain),
     abiFunctionSignature |-> "approve(address,uint256)",
     abiParameters |-> <<TokenMessenger, s.transferAmount * UsdcBaseUnits>>]

\* a faulty variant: the burn names the source chain's domain
BurnRequest_SourceDomain(s) ==
    [walletId |-> s.sourceWallet.id,
     contractAddress |-> TokenMessenger,
     abiFunctionSignature |-> "depositForBurn(uint256,uint32,bytes32,address)",
     abiParameters |-> <<s.transferAmount * UsdcBaseUnits,
                         getCCTPDomainId(s.sourceWallet.blockchain),
                         addressToBytes32(s.destinationWallet.address),
                         usdcContract(s.sourceWallet.blockchain)>>]

\* Step 2: the depositForBurn(uint256,uint32,bytes32,address) request
BurnRequest(s) ==
    [walletId |-> s.sourceWallet.id,
     contractAddress |-> TokenMessenger,
     abiFunctionSignature |-> "depositForBurn(uint256,uint32,bytes32,address)",
     abiParameters |-> <<s.transferAmount * UsdcBaseUnits,
                         getCCTPDomainId(s.destinationWallet.blockchain),
                         addressToBytes32(s.destinationWallet.address),
                         usdcContract(s.sourceWallet.blockchain)>>]

\* a faulty variant: the mint is submitted by the source wallet
TransferMintRequest_BySource(s, attestation) ==
    [walletId |-> s.sourceWallet.id,
     contractAddress |-> getMessageTransmitterAddress(s.destinationWallet.blockchain),
     abiFunctionSignature |-> "receiveMessage(bytes,bytes)",
     abiParameters |-> <<attestation.message, attestation.attestation>>]

\* Step 4: the receiveMessage(bytes,bytes) request of the full transfer
TransferMintRequest(s, attestation) ==
    [walletId |-> s.destinationWallet.id,
     contractAddress |-> getMessageTransmitterAddress(s.destinationWallet.blockchain),
     abiFunctionSignature |-> "receiveMessage(bytes,bytes)",
     abiParameters |-> <<attestation.message, attestation.attestation>>]

\* the mint was confirmed: the success message, return
TransferAfterMint(s, txHash) ==
    Return([Emit(s, "confirmed", "Mint") EXCEPT !.mintTxHash = txHash,
                                                !.reported = s.transferAmount],
           "CROSS-CHAIN TRANSFER COMPLETED SUCCESSFULLY")

\* the attestation poll returned: if (!attestation) throw; Step 4 is submitted
TransferAfterAttestation(s, attestation) ==
    LET s1 == [Emit(s, "attest", "received") EXCEPT !.attestation = attestation]
    IN  IF getMessageTransmitterAddress(s.destinationWallet.blockchain) = Unsupported
        THEN TransferFailed(s1, Unsupported)
        ELSE SubmitTx(s1, TransferMintRequest(s1, attestation), "Mint")

\* a faulty variant: the attestation is asked for the approval's hash
TransferStartAttestation_ApprovalHash(s) ==
    StartAttestation(s, s.approvalTxHash, s.sourceWallet.blockchain)

\* Step 3: const attestation = await waitForAttestation(burnTxHash, sourceWallet.blockchain)
TransferStartAttestation(s) == StartAttestation(s, s.burnTxHash, s.sourceWallet.blockchain)

\* the burn was confirmed: its hash is kept and Step 3 starts
TransferAfterBurn(s, txHash) ==
    LET s1 == [Emit(s, "confirmed", "Burn") EXCEPT !.burnTxHash = txHash]
        s2 == TransferStartAttestation(s1)
    IN  IF s2.pc = "thrown" THEN TransferFailed(s1, Unsupported) ELSE s2

\* the approval was confirmed: Step 2 is submitted
TransferAfterApproval(s, txHash) ==
    LET s1 == [Emit(s, "confirmed", "Approval") EXCEPT !.approvalTxHash = txHash]
    IN  IF getCCTPDomainId(s.destinationWallet.blockchain) = NoDomain
        THEN TransferFailed(s1, Unsupported)
        ELSE SubmitTx(s1, BurnRequest(s1), "Burn")

\* a faulty variant: waitForTransactionCompletion is called without await, and
\* the saga goes on while the poll runs
TransferCreated_NotAwaited(s, resp) ==
    LET s1 == ObserveCreate(s, resp)
    IN  IF resp.kind = "throw"
        THEN TransferFailed(s1, ApiError)
        ELSE IF resp.id = Undefined
             THEN TransferFailed(s1, CreateFailed)
             ELSE LET s2 == StartTxPoll(s1, resp.id, s.step)
                  IN  CASE s.step = "Approval" -> TransferAfterApproval(s2, Undefined)
                        [] s.step = "Burn" -> TransferAfterBurn(s2, Undefined)
                        [] OTHER -> TransferAfterMint(s2, Undefined)

\* a faulty variant: the missing id is not checked
TransferCreated_NoIdCheck(s, resp) ==
    LET s1 == ObserveCreate(s, resp)
    IN  IF resp.kind = "throw"
        THEN TransferFailed(s1, ApiError)
        ELSE StartTxPoll(s1, resp.id, s.step)

\* createContractExecutionTransaction answered: const tx = response.data?.id;
\* if (!tx) throw; await waitForTransactionCompletion(tx, step)
TransferCreated(s, resp) ==
    LET s1 == ObserveCreate(s, resp)
    IN  IF resp.kind = "throw"
        THEN TransferFailed(s1, ApiError)
        ELSE IF resp.id = Undefined
             THEN TransferFailed(s1, CreateFailed)
             ELSE StartTxPoll(s1, resp.id, s.step)

\* a faulty variant: after the timeout the saga polls the transaction anew
TransferPoll_PollsAgain(s, resp) ==
    LET it == waitForTransactionCompletion(s.attempts, resp)
        s1 == ObserveTx(s, resp, it)
    IN  IF it.ret
        THEN CASE s.step = "Approval" -> TransferAfterApproval(LeaveLoop(s1), it.value)
               [] s.step = "Burn" -> TransferAfterBurn(LeaveLoop(s1), it.value)
               [] OTHER -> TransferAfterMint(LeaveLoop(s1), it.value)
        ELSE IF TxLoopRuns(it.attempts) THEN PollAgain(s1) ELSE StartTxPoll(LeaveLoop(s1), s.txId, s.step)

\* one iteration of waitForTransactionCompletion inside the saga, and what the
\* saga does when the loop returns or throws its timeout
TransferPoll(s, resp) ==
    LET it == waitForTransactionCompletion(s.attempts, resp)
        s1 == ObserveTx(s, resp, it)
    IN  IF it.ret
        THEN CASE s.step = "Approval" -> TransferAfterApproval(LeaveLoop(s1), it.value)
               [] s.step = "Burn" -> TransferAfterBurn(LeaveLoop(s1), it.value)
               [] OTHER -> TransferAfterMint(LeaveLoop(s1), it.value)
        ELSE IF TxLoopRuns(it.attempts) THEN PollAgain(s1) ELSE TransferFailed(LeaveLoop(s1), TxTimeout)

\* one iteration of waitForAttestation inside the saga
TransferAttest(s, resp) ==
    LET it == waitForAttestation(s.attempts, resp)
        s1 == ObserveAtt(s, resp, it)
    IN  IF it.ret
        THEN TransferAfterAttestation(LeaveLoop(s1), it.value)
        ELSE IF AttLoopRuns(it.attempts) THEN PollAgain(s1) ELSE TransferFailed(LeaveLoop(s1), AttTimeout)

(***************************************************************************)
(* performCrossChainTransfer: from the wallet list to the confirmation.    *)
(***************************************************************************)
\* SUPPORTED_NETWORKS[wallet.blockchain] && wallet.state === 'LIVE'
IsSupportedLive(w) == w.blockchain \in SUPPORTED_NETWORKS /\ w.state = "LIVE"

\* getAllWallets() answered: the empty-list and fewer-than-two returns, the
\* supported-wallet filter, the source prompt
TransferWallets(s0, allWallets) ==
    LET s == [Answered(s0) EXCEPT !.allWallets = allWallets]
    IN  IF Len(allWallets) = 0
        THEN Return(s, "No wallets found")
        ELSE LET supportedWallets == SelectSeq(allWallets, IsSupportedLive)
             IN  IF Len(supportedWallets) < 2
                 THEN Return(s, "You need at least 2 wallets on supported networks")
                 ELSE [s EXCEPT !.supportedWallets = supportedWallets, !.pc = "sourceChoice"]

\* sourceIndex = parseInt(sourceChoice) - 1; the range check is false for NaN,
\* and supportedWallets[NaN] is undefined: reading its address throws
TransferSourceChoice(s0, answer) ==
    LET sourceChoice == askQuestion(answer)
        choice == parseInt(sourceChoice)
        s == [s0 EXCEPT !.selection = Selection("source", sourceChoice)]
    IN
    IF choice.isNaN
    THEN TransferError(s, TypeError)
    ELSE IF choice.val - 1 < 0 \/ choice.val - 1 >= Len(s.supportedWallets)
         THEN Return(s, "Invalid source wallet selection")
         ELSE [Requested(s) EXCEPT !.sourceWallet = s.supportedWallets[choice.val],
                                   !.pc = "balance"]

\* wallet.blockchain !== sourceWallet.blockchain
OnOtherChain(s, w) == w.blockchain # s.sourceWallet.blockchain

\* findUSDCBalance(await getWalletBalance(sourceWallet.id)) is known: the
\* no-balance return, the destination filter, the destination prompt
TransferBalance(s0, sourceUSDCBalance) ==
    LET s == Answered(s0)
    IN  IF sourceUSDCBalance <= 0
        THEN Return(s, "Source wallet has no USDC balance")
        ELSE LET destinationWallets ==
                     SelectSeq(s.supportedWallets, LAMBDA w : OnOtherChain(s, w))
             IN  IF Len(destinationWallets) = 0
                 THEN Return(s, "No wallets found on different networks")
                 ELSE [s EXCEPT !.sourceUSDCBalance = sourceUSDCBalance,
                                !.destinationWallets = destinationWallets,
                                !.pc = "destChoice"]

\* destIndex = parseInt(destChoice) - 1, as for the source
TransferDestChoice(s0, answer) ==
    LET destChoice == askQuestion(answer)
        choice == parseInt(destChoice)
        s == [s0 EXCEPT !.selection = Selection("destination", destChoice)]
    IN
    IF choice.isNaN
    THEN TransferError(s, TypeError)
    ELSE IF choice.val - 1 < 0 \/ choice.val - 1 >= Len(s.destinationWallets)
         THEN Return(s, "Invalid destination wallet selection")
         ELSE [s EXCEPT !.destinationWallet = s.destinationWallets[choice.val], !.pc = "amount"]

\* the TRANSFER CONFIRMATION screen: FROM, TO, Amount
ConfirmationScreen(sourceWallet, destinationWallet, transferAmount) ==
    [source |-> sourceWallet, destination |-> destinationWallet, amount |-> transferAmount]

\* a faulty variant: the amount is not compared with the balance
TransferAmount_NoBalanceCheck(s, amount) ==
    IF amount.isNaN \/ amount.val <= 0
    THEN Return(s, "Invalid amount")
    ELSE [s EXCEPT !.transferAmount = amount.val,
                   !.shown = ConfirmationScreen(s.sourceWallet, s.destinationWallet,
                                                amount.val),
                   !.pc = "confirm"]

\* transferAmount = parseFloat(amountInput): the two amount checks, then the
\* confirmation screen and its prompt
TransferAmount(s, amount) ==
    IF amount.isNaN \/ amount.val <= 0
    THEN Return(s, "Invalid amount")
    ELSE IF amount.val > s.sourceUSDCBalance
         THEN Return(s, "Insufficient balance")
         ELSE [s EXCEPT !.transferAmount = amount.val,
                        !.shown = ConfirmationScreen(s.sourceWallet, s.destinationWallet,
                                                     amount.val),
                        !.pc = "confirm"]

\* a faulty variant: everything but no and n confirms
TransferConfirm_UnlessNo(s0, answer) ==
    LET confirmation == askQuestion(answer)
        s == [s0 EXCEPT !.confirmation = confirmation]
    IN  IF toLowerCase(confirmation) = <<"n", "o">> \/ toLowerCase(confirmation) = <<"n">>
        THEN Return(s, "Transfer cancelled")
        ELSE SubmitTx(s, ApprovalRequest(s), "Approval")

\* the answer to "Confirm this cross-chain transfer? (yes/no)": anything but
\* yes / y cancels; otherwise Step 1 is submitted
TransferConfirm(s0, answer) ==
    LET confirmation == askQuestion(answer)
        s == [s0 EXCEPT !.confirmation = confirmation]
    IN  IF toLowerCase(confirmation) # <<"y", "e", "s">> /\ toLowerCase(confirmation) # <<"y">>
        THEN Return(s, "Transfer cancelled")
        ELSE SubmitTx(s, ApprovalRequest(s), "Approval")

(***************************************************************************)
(* recoverFromBurn.                                                        *)
(***************************************************************************)
\* catch (error) of recoverFromBurn: log, return
RecoverFailed(s, error) == Return([s EXCEPT !.error = error], "Recovery failed")

\* a faulty variant: the two parameters of receiveMessage are swapped
RecoverMintRequest_Swapped(s, attestation) ==
    [walletId |-> s.destinationWallet.id,
     contractAddress |-> getMessageTransmitterAddress(s.destinationWallet.blockchain),
     abiFunctionSignature |-> "receiveMessage(bytes,bytes)",
     abiParameters |-> <<attestation.attestation, attestation.message>>]

\* the receiveMessage(bytes,bytes) request of the recovery
RecoverMintRequest(s, attestation) ==
    [walletId |-> s.destinationWallet.id,
     contractAddress |-> getMessageTransmitterAddress(s.destinationWallet.blockchain),
     abiFunctionSignature |-> "receiveMessage(bytes,bytes)",
     abiParameters |-> <<attestation.message, attestation.attestation>>]

\* the mint was confirmed: the success message, return
RecoverAfterMint(s, txHash) ==
    Return([Emit(s, "confirmed", "Mint") EXCEPT !.mintTxHash = txHash],
           "RECOVERY COMPLETED SUCCESSFULLY")

\* a faulty variant: the recovery goes through the burn again before the mint
RecoverAfterAttestation_BurnsAgain(s, attestation) ==
    SubmitTx([Emit(s, "attest", "received") EXCEPT !.attestation = attestation],
             BurnRequest(s), "Burn")

\* the attestation poll returned: if (!attestation) throw; the mint is submitted
RecoverAfterAttestation(s, attestation) ==
    LET s1 == [Emit(s, "attest", "received") EXCEPT !.attestation = attestation]
    IN  IF getMessageTransmitterAddress(s.destinationWallet.blockchain) = Unsupported
        THEN RecoverFailed(s1, Unsupported)
        ELSE SubmitTx(s1, RecoverMintRequest(s1, attestation), "Mint")

\* const attestation = await waitForAttestation(burnTxHash, sourceBlockchain)
RecoverStartAttestation(s) == StartAttestation(s, s.burnTxHash, s.sourceBlockchain)

\* a faulty variant: the hash is not tested
RecoverBurnHash_NoCheck(s, answer) ==
    LET burnTxHash == askQuestion(answer)
    IN  [s EXCEPT !.burnTxHash = HashText(burnTxHash), !.pc = "sourceChain"]

\* the answer to "Enter the burn transaction hash": if (!burnTxHash.trim())
\* return; the hash is kept as the string it spells
RecoverBurnHash(s, answer) ==
    LET burnTxHash == askQuestion(answer)
    IN  IF trim(burnTxHash) = <<>>
        THEN Return([s EXCEPT !.burnTxHash = HashText(burnTxHash)],
                    "Burn transaction hash is required for recovery")
        ELSE [s EXCEPT !.burnTxHash = HashText(burnTxHash), !.pc = "sourceChain"]

\* sourceBlockchain = sourceChoice === "1" ? "ETH-SEPOLIA" : "MATIC-AMOY";
\* getAllWallets() is awaited next
RecoverSourceChain(s, answer) ==
    LET sourceChoice == askQuestion(answer)
    IN  [Requested(s) EXCEPT
            !.sourceChoice = sourceChoice,
            !.sourceBlockchain = IF sourceChoice = <<"1">> THEN "ETH-SEPOLIA" ELSE "MATIC-AMOY",
            !.pc = "wallets"]

\* wallet.blockchain !== sourceBlockchain && SUPPORTED_NETWORKS[wallet.blockchain]
IsRecoveryDestination(s, w) ==
    w.blockchain # s.sourceBlockchain /\ w.blockchain \in SUPPORTED_NETWORKS

\* getAllWallets() answered: the destination filter, the destination prompt
RecoverWallets(s0, allWallets) ==
    LET s == [Answered(s0) EXCEPT !.allWallets = allWallets]
        destinationWallets == SelectSeq(allWallets, LAMBDA w : IsRecoveryDestination(s, w))
    IN  IF Len(destinationWallets) = 0
        THEN Return(s, "No destination wallets found")
        ELSE [s EXCEPT !.destinationWallets = destinationWallets, !.pc = "destChoice"]

\* destIndex = parseInt(destChoice) - 1; for NaN destinationWallets[NaN] is
\* undefined and reading its address, outside the try block, throws out of
\* recoverFromBurn; otherwise the try block is entered at the attestation
RecoverDestChoice(s0, answer) ==
    LET destChoice == askQuestion(answer)
        choice == parseInt(destChoice)
        s == [s0 EXCEPT !.selection = Selection("destination", destChoice)]
    IN
    IF choice.isNaN
    THEN Crash(s, TypeError)
    ELSE IF choice.val - 1 < 0 \/ choice.val - 1 >= Len(s.destinationWallets)
         THEN Return(s, "Invalid destination wallet selection")
         ELSE LET s1 == [s EXCEPT !.destinationWallet = s.destinationWallets[choice.val]]
                  s2 == RecoverStartAttestation(s1)
              IN  IF s2.pc = "thrown" THEN RecoverFailed(s1, Unsupported) ELSE s2

\* one iteration of waitForAttestation inside the recovery
RecoverAttest(s, resp) ==
    LET it == waitForAttestation(s.attempts, resp)
        s1 == ObserveAtt(s, resp, it)
    IN  IF it.ret
        THEN RecoverAfterAttestation(LeaveLoop(s1), it.value)
        ELSE IF AttLoopRuns(it.attempts) THEN PollAgain(s1) ELSE RecoverFailed(LeaveLoop(s1), AttTimeout)

\* createContractExecutionTransaction answered: if (!mintTx) throw;
\* await waitForTransactionCompletion(mintTx, "Mint")
RecoverCreated(s, resp) ==
    LET s1 == ObserveCreate(s, resp)
    IN  IF resp.kind = "throw"
        THEN RecoverFailed(s1, ApiError)
        ELSE IF resp.id = Undefined
             THEN RecoverFailed(s1, CreateFailed)
             ELSE StartTxPoll(s1, resp.id, "Mint")

\* one iteration of waitForTransactionCompletion inside the recovery
RecoverPoll(s, resp) ==
    LET it == waitForTransactionCompletion(s.attempts, resp)
        s1 == ObserveTx(s, resp, it)
    IN  IF it.ret
        THEN RecoverAfterMint(LeaveLoop(s1), it.value)
        ELSE IF TxLoopRuns(it.attempts) THEN PollAgain(s1) ELSE RecoverFailed(LeaveLoop(s1), TxTimeout)

(***************************************************************************)
(* main.                                                                   *)
(***************************************************************************)
\* if (!await initializeClient()) { ...; rl.close(); return; }, then the menu
MainInitialize(s, ok) ==
    IF ~ok THEN Return(s, "Failed to initialize") ELSE [s EXCEPT !.pc = "menu"]

\* choice "1": performCrossChainTransfer, which awaits getAllWallets();
\* choice "2": recoverFromBurn, which awaits the burn hash; else invalid
MainMenu(s, choice) ==
    CASE choice = "1" -> [Requested(s) EXCEPT !.mode = "transfer", !.pc = "wallets"]
      [] choice = "2" -> [s EXCEPT !.mode = "recover", !.pc = "burnHash"]
      [] OTHER -> Return(s, "Invalid choice")

(***************************************************************************)
(* The state machine of one run: one action per awaited answer.            *)
(***************************************************************************)
Init == run = InitRun /\ runT = InitRun /\ runR = InitRun /\ call = NoCall

OnInitialize ==
    /\ run.pc = "init"
    /\ \E ok \in BOOLEAN : run' = MainInitialize(run, ok)
    /\ UNCHANGED <<runT, runR, call>>

OnMenu ==
    /\ run.pc = "menu"
    /\ \E choice \in {"1", "2", "3"} : run' = MainMenu(run, choice)
    /\ UNCHANGED <<runT, runR, call>>

OnTransferWallets ==
    /\ run.mode = "transfer" /\ run.pc = "wallets"
    /\ \E e \in WalletScenarios : run' = TransferWallets(run, getAllWallets(e.sets, e.listings))
    /\ UNCHANGED <<runT, runR, call>>

OnTransferSourceChoice ==
    /\ run.mode = "transfer" /\ run.pc = "sourceChoice"
    /\ \E answer \in Choices(Len(run.supportedWallets)) : run' = TransferSourceChoice(run, answer)
    /\ UNCHANGED <<runT, runR, call>>

OnTransferBalance ==
    /\ run.mode = "transfer" /\ run.pc = "balance"
    /\ \E balanceResponse \in BalanceResponses :
          run' = TransferBalance(run, findUSDCBalance(getWalletBalance(balanceResponse)))
    /\ UNCHANGED <<runT, runR, call>>

OnTransferDestChoice ==
    /\ run.mode = "transfer" /\ run.pc = "destChoice"
    /\ \E answer \in Choices(Len(run.destinationWallets)) : run' = TransferDestChoice(run, answer)
    /\ UNCHANGED <<runT, runR, call>>

OnTransferAmount ==
    /\ run.mode = "transfer" /\ run.pc = "amount"
    /\ \E amount \in Amounts : run' = TransferAmount(run, amount)
    /\ UNCHANGED <<runT, runR, call>>

OnTransferConfirm ==
    /\ run.mode = "transfer" /\ run.pc = "confirm"
    /\ \E answer \in Confirmations : run' = TransferConfirm(run, answer)
    /\ UNCHANGED <<runT, runR, call>>

OnTransferCreated ==
    /\ run.mode = "transfer" /\ run.pc = "create"
    /\ \E resp \in CreateResponses(Len(run.calls)) : run' = TransferCreated(run, resp)
    /\ UNCHANGED <<runT, runR, call>>

OnTransferPoll ==
    /\ run.mode = "transfer" /\ run.pc = "poll"
    /\ \E resp \in TxResponses(run.txId) : run' = TransferPoll(run, resp)
    /\ UNCHANGED <<runT, runR, call>>

OnTransferAttest ==
    /\ run.mode = "transfer" /\ run.pc = "attest"
    /\ \E resp \in AttResponses(run.attKey) : run' = TransferAttest(run, resp)
    /\ UNCHANGED <<runT, runR, call>>

OnRecoverBurnHash ==
    /\ run.mode = "recover" /\ run.pc = "burnHash"
    /\ \E answer \in TypedHashes : run' = RecoverBurnHash(run, answer)
    /\ UNCHANGED <<runT, runR, call>>

OnRecoverSourceChain ==
    /\ run.mode = "recover" /\ run.pc = "sourceChain"
    /\ \E answer \in SourceChoices : run' = RecoverSourceChain(run, answer)
    /\ UNCHANGED <<runT, runR, call>>

OnRecoverWallets ==
    /\ run.mode = "recover" /\ run.pc = "wallets"
    /\ \E e \in WalletScenarios : run' = RecoverWallets(run, getAllWallets(e.sets, e.listings))
    /\ UNCHANGED <<runT, runR, call>>

OnRecoverDestChoice ==
    /\ run.mode = "recover" /\ run.pc = "destChoice"
    /\ \E answer \in Choices(Len(run.destinationWallets)) : run' = RecoverDestChoice(run, answer)
    /\ UNCHANGED <<runT, runR, call>>

OnRecoverAttest ==
    /\ run.mode = "recover" /\ run.pc = "attest"
    /\ \E resp \in AttResponses(run.attKey) : run' = RecoverAttest(run, resp)
    /\ UNCHANGED <<runT, runR, call>>

OnRecoverCreated ==
    /\ run.mode = "recover" /\ run.pc = "create"
    /\ \E resp \in CreateResponses(Len(run.calls)) : run' = RecoverCreated(run, resp)
    /\ UNCHANGED <<runT, runR, call>>

OnRecoverPoll ==
    /\ run.mode = "recover" /\ run.pc = "poll"
    /\ \E resp \in TxResponses(run.txId) : run' = RecoverPoll(run, resp)
    /\ UNCHANGED <<runT, runR, call>>

\* SIGINT arrives while the process runs: the code is at one of its awaits,
\* and the handler runs before any answer is taken
OnSigint ==
    /\ run.exit = "running"
    /\ run' = Sigint(run)
    /\ UNCHANGED <<runT, runR, call>>

Next ==
    \/ OnSigint
    \/ OnInitialize
    \/ OnMenu
    \/ OnTransferWallets
    \/ OnTransferSourceChoice
    \/ OnTransferBalance
    \/ OnTransferDestChoice
    \/ OnTransferAmount
    \/ OnTransferConfirm
    \/ OnTransferCreated
    \/ OnTransferPoll
    \/ OnTransferAttest
    \/ OnRecoverBurnHash
    \/ OnRecoverSourceChain
    \/ OnRecoverWallets
    \/ OnRecoverDestChoice
    \/ OnRecoverAttest
    \/ OnRecoverCreated
    \/ OnRecoverPoll

Spec == Init /\ [][Next]_vars

\* an awaited answer arrives: every step of a run but the interrupt
Returns ==
    \/ OnInitialize
    \/ OnMenu
    \/ OnTransferWallets
    \/ OnTransferSourceChoice
    \/ OnTransferBalance
    \/ OnTransferDestChoice
    \/ OnTransferAmount
    \/ OnTransferConfirm
    \/ OnTransferCreated
    \/ OnTransferPoll
    \/ OnTransferAttest
    \/ OnRecoverBurnHash
    \/ OnRecoverSourceChain
    \/ OnRecoverWallets
    \/ OnRecoverDestChoice
    \/ OnRecoverAttest
    \/ OnRecoverCreated
    \/ OnRecoverPoll

\* one run in which every external call, timer and prompt eventually returns
SpecLive == Init /\ [][Next]_vars /\ WF_vars(Returns)

(***************************************************************************)
(* A full transfer and a recovery side by side, from the attestation step  *)
(* on: runT is a transfer whose burn was confirmed, runR a recovery of the *)
(* same burn hash, source blockchain and destination wallet, and both get  *)
(* the same answers from the attestation and the custody service.          *)
(***************************************************************************)
\* the answer with which getTransaction confirms a transaction
Confirmed(txId) == [kind |-> "tx", state |-> "CONFIRMED", txHash |-> HashOf(txId)]

\* the answer with which createContractExecutionTransaction creates one
Created(txId) == [kind |-> "ok", id |-> txId]

\* performCrossChainTransfer up to the start of the attestation poll, with
\* the approval and the burn confirmed at the first status query
TransferUntilBurned(allWallets, source, balance, dest, amount) ==
    LET t1 == TransferWallets(MainMenu(MainInitialize(InitRun, TRUE), "1"), allWallets)
        t2 == TransferBalance(TransferSourceChoice(t1, Typed(source)), balance)
        t3 == TransferAmount(TransferDestChoice(t2, Typed(dest)), Num(amount))
        t4 == TransferPoll(TransferCreated(TransferConfirm(t3, <<"y">>), Created("tx-1")),
                           Confirmed("tx-1"))
    IN  TransferPoll(TransferCreated(t4, Created("tx-2")), Confirmed("tx-2"))

\* recoverFromBurn up to the start of the attestation poll
RecoverUntilBurned(burnTxHash, sourceChoice, allWallets, dest) ==
    LET r1 == RecoverBurnHash(MainMenu(MainInitialize(InitRun, TRUE), "2"), Spell(burnTxHash))
    IN  RecoverDestChoice(RecoverWallets(RecoverSourceChain(r1, sourceChoice), allWallets),
                          Typed(dest))

\* the number of wallets of a list that performCrossChainTransfer offers
NumSupported(allWallets) == Len(SelectSeq(allWallets, IsSupportedLive))

InitEq ==
    /\ run = InitRun /\ call = NoCall
    /\ \E allWallets \in {l \in WalletLists : NumSupported(l) >= 2} :
       \E source \in 1..NumSupported(allWallets), dest \in 1..(NumSupported(allWallets) - 1) :
       \E sourceChoice \in {Typed(1), Typed(2)}, recoverDest \in 1..Len(allWallets) :
       \E burnTxHash \in Hashes :
          LET t == TransferUntilBurned(allWallets, source, 1, dest, 1)
              r == RecoverUntilBurned(burnTxHash, sourceChoice, allWallets, recoverDest)
          IN  /\ t.pc = "attest" /\ r.pc = "attest"
              /\ r.burnTxHash = t.burnTxHash
              /\ r.sourceBlockchain = t.sourceWallet.blockchain
              /\ r.destinationWallet = t.destinationWallet
              /\ runT = t /\ runR = r

\* two fetch outcomes that differ at most in the key they answer
SameOutcome(a, b) ==
    /\ a.kind = b.kind /\ a.status = b.status /\ a.hasMessages = b.hasMessages
    /\ Len(a.messages) = Len(b.messages)
    /\ \A i \in 1..Len(a.messages) :
         /\ (a.messages[i].message = Empty) <=> (b.messages[i].message = Empty)
         /\ (a.messages[i].attestation = Empty) <=> (b.messages[i].attestation = Empty)

OnBothAttest ==
    /\ runT.pc = "attest" /\ runR.pc = "attest"
    /\ \E a \in AttResponses(runT.attKey), b \in AttResponses(runR.attKey) :
         /\ SameOutcome(a, b)
         /\ runT' = TransferAttest(runT, a)
         /\ runR' = RecoverAttest(runR, b)
    /\ UNCHANGED <<run, call>>

OnBothCreated ==
    /\ runT.pc = "create" /\ runR.pc = "create"
    /\ \E resp \in CreateResponses(Len(runT.calls)) :
         /\ runT' = TransferCreated(runT, resp)
         /\ runR' = RecoverCreated(runR, resp)
    /\ UNCHANGED <<run, call>>

OnBothPoll ==
    /\ runT.pc = "poll" /\ runR.pc = "poll"
    /\ \E resp \in TxResponses(runT.txId) :
         /\ runT' = TransferPoll(runT, resp)
         /\ runR' = RecoverPoll(runR, resp)
    /\ UNCHANGED <<run, call>>

NextEq == OnBothAttest \/ OnBothCreated \/ OnBothPoll

SpecEq == InitEq /\ [][NextEq]_vars

(***************************************************************************)
(* The pure helpers on their own: getCCTPDomainId and addressToBytes32     *)
(* called with arguments of every kind, the second also with its own       *)
(* result.                                                                 *)
(***************************************************************************)
\* chain identifiers: the supported ones and some that are not
ChainInputs == SUPPORTED_NETWORKS \cup {OtherChain, "", "eth", "ARB", "ETH-GOERLI", "AVAX-FUJI"}

\* characters of address arguments: hex digits and others
AddressChars == {"0", "1", "a", "F", "g", "Z"}

\* lengths of address arguments, without the prefix: 20 bytes are 40 digits,
\* 32 bytes are 64
AddressLengths == {1, 39, 40, 41, 63, 64, 65}

\* prefixes of address arguments
AddressPrefixes == {<<>>, <<"0", "x">>, <<"0", "X">>}

\* address arguments: well-formed addresses, with and without "0x", and
\* strings of other lengths and characters
AddressInputs ==
    {pre \o Repeat(d, n - 1) \o Repeat(e, 1) :
        pre \in AddressPrefixes, d \in AddressChars, e \in {"1", "g"}, n \in AddressLengths}
    \cup AddressPrefixes

InitFn == run = InitRun /\ runT = InitRun /\ runR = InitRun /\ call = NoCall

OnGetCCTPDomainId ==
    /\ \E chain \in ChainInputs : call' = CallGetCCTPDomainId(call, chain)
    /\ UNCHANGED <<run, runT, runR>>

OnAddressToBytes32 ==
    /\ \E address \in AddressInputs : call' = CallAddressToBytes32(address, FALSE)
    /\ UNCHANGED <<run, runT, runR>>

OnFindUSDCBalance ==
    /\ \E balanceResponse \in BalanceResponses : call' = CallFindUSDCBalance(balanceResponse)
    /\ UNCHANGED <<run, runT, runR>>

OnGetAllWallets ==
    /\ \E walletSetsResponse \in ListSetsResponses :
       \E first \in ListWalletsResponses(S1.id), second \in ListWalletsResponses(S2.id) :
          call' = CallGetAllWallets(walletSetsResponse, Listings(first, second))
    /\ UNCHANGED <<run, runT, runR>>

\* the result of addressToBytes32 is encoded again
OnEncodeAgain ==
    /\ call.fn = "addressToBytes32" /\ ~call.again
    /\ call' = CallAddressToBytes32(call.bytes32, TRUE)
    /\ UNCHANGED <<run, runT, runR>>

NextFn == OnGetCCTPDomainId \/ OnAddressToBytes32 \/ OnEncodeAgain \/ OnGetAllWallets
          \/ OnFindUSDCBalance

SpecFn == InitFn /\ [][NextFn]_vars

(***************************************************************************)
(* The wallet manager (src/wallet-manager.js): the menu loop of main and   *)
(* the three operations of the menu.  SpecManager follows one run of it in *)
(* the variable run.                                                       *)
(***************************************************************************)
\* const NETWORKS = {'1': ..., ..., '6': ...}: the blockchain code per key
NETWORKS ==
    [key \in {Typed(k) : k \in 1..6} |->
        CASE key = Typed(1) -> "MATIC-AMOY"
          [] key = Typed(2) -> "ETH-SEPOLIA"
          [] key = Typed(3) -> "ETH"
          [] key = Typed(4) -> "MATIC"
          [] key = Typed(5) -> "SOL-DEVNET"
          [] OTHER -> "SOL"]

\* the operations of the menu, by the option that runs them
Operations == {"list", "createWalletSet", "createWallet"}

\* what the catch block of an operation logs
OperationErrors ==
    {"Error listing wallets", "Error creating wallet set", "Error creating wallet"}

\* the state of a run of the wallet manager before main is called; ops are
\* the operations the current call of showMenu has called, outcome is the
\* last result written to the console
InitManager ==
    [tool |-> "wallet-manager", pc |-> "init", continueRunning |-> TRUE,
     choice |-> <<>>, ops |-> <<>>, walletSets |-> <<>>, i |-> 0,
     selectedWalletSet |-> Undefined, selectedNetwork |-> Undefined, count |-> 0,
     outcome |-> "none", signal |-> FALSE, exit |-> "running"]

\* an operation returns (by return, by falling off its end or out of its
\* catch block): its locals are gone and showMenu goes on to waitForUser
EndOperation(s, outcome) ==
    [s EXCEPT !.pc = "waitForUser", !.outcome = outcome, !.walletSets = <<>>,
              !.i = 0, !.selectedWalletSet = Undefined,
              !.selectedNetwork = Undefined, !.count = 0]

\* main up to the first prompt of showMenu: a failed initializeClient closes
\* the prompt and returns
ManagerInitialize(s, initialized) ==
    IF initialized
    THEN [s EXCEPT !.pc = "menu", !.continueRunning = TRUE]
    ELSE [s EXCEPT !.pc = "done", !.outcome = "Failed to initialize", !.exit = "0"]

\* a faulty variant: the default case returns false
showMenu_InvalidEnds(s, answer) ==
    LET choice == askQuestion(answer)
        t == [s EXCEPT !.choice = choice]
    IN  CASE choice = Typed(1) -> [t EXCEPT !.pc = "list:sets", !.ops = Append(s.ops, "list")]
          [] choice = Typed(2) -> [t EXCEPT !.pc = "set:name", !.ops = Append(s.ops, "createWalletSet")]
          [] choice = Typed(3) -> [t EXCEPT !.pc = "wallet:sets", !.ops = Append(s.ops, "createWallet")]
          [] choice = Typed(4) -> [t EXCEPT !.pc = "done", !.outcome = "Goodbye!", !.continueRunning = FALSE, !.exit = "0"]
          [] OTHER -> [t EXCEPT !.pc = "done", !.outcome = "Invalid option", !.continueRunning = FALSE, !.exit = "0"]

\* showMenu from the answer to "Select an option (1-4)" to its next await:
\* the switch calls one operation, or says goodbye and returns false (main
\* leaves the loop and closes the prompt), or reports an invalid option
showMenu(s, answer) ==
    LET choice == askQuestion(answer)
        t == [s EXCEPT !.choice = choice]
    IN  CASE choice = Typed(1) -> [t EXCEPT !.pc = "list:sets", !.ops = Append(s.ops, "list")]
          [] choice = Typed(2) -> [t EXCEPT !.pc = "set:name", !.ops = Append(s.ops, "createWalletSet")]
          [] choice = Typed(3) -> [t EXCEPT !.pc = "wallet:sets", !.ops = Append(s.ops, "createWallet")]
          [] choice = Typed(4) -> [t EXCEPT !.pc = "done", !.outcome = "Goodbye!", !.continueRunning = FALSE, !.exit = "0"]
          [] OTHER -> [t EXCEPT !.pc = "waitForUser", !.outcome = "Invalid option"]

\* waitForUser answered: showMenu returns true and the while loop of main
\* calls showMenu again
waitForUser(s, answer) ==
    [s EXCEPT !.pc = "menu", !.continueRunning = TRUE, !.choice = <<>>, !.ops = <<>>]

\* walletSetsResponse.data?.walletSets || []
WalletSetsOf(response) == IF response.hasData THEN response.walletSets ELSE <<>>

\* listWalletsAndSets after client.listWalletSets
ListSets(s, response) ==
    IF response.kind = "throw" THEN EndOperation(s, "Error listing wallets")
    ELSE IF Len(WalletSetsOf(response)) = 0 THEN EndOperation(s, "No wallet sets found")
    ELSE [s EXCEPT !.pc = "list:wallets", !.walletSets = WalletSetsOf(response), !.i = 1]

\* the for loop of listWalletsAndSets after client.listWallets of set i: a
\* listing that rejects is logged by the inner catch and the loop goes on
ListWalletsOfSet(s, response) ==
    IF s.i < Len(s.walletSets)
    THEN [s EXCEPT !.i = s.i + 1]
    ELSE EndOperation(s, IF response.kind = "throw" THEN "Error fetching wallets" ELSE "Listed")

\* createWalletSet after its prompt
WalletSetName(s, answer) ==
    IF askQuestion(answer) = <<>>
    THEN EndOperation(s, "Wallet set name cannot be empty")
    ELSE [s EXCEPT !.pc = "set:create"]

\* client.createWalletSet({name}): rejects, resolves without a wallet set
\* (walletSet.name then throws inside the try), or resolves with one
CreateSetResponses == {SetsThrow, NoSets, Sets(<<S1>>)}

\* createWalletSet after client.createWalletSet
WalletSetCreated(s, response) ==
    IF response.kind = "throw" \/ ~response.hasData
    THEN EndOperation(s, "Error creating wallet set")
    ELSE EndOperation(s, "Wallet set created successfully")

\* createWallet after client.listWalletSets
WalletSetsListed(s, response) ==
    IF response.kind = "throw" THEN EndOperation(s, "Error creating wallet")
    ELSE IF Len(WalletSetsOf(response)) = 0 THEN EndOperation(s, "No wallet sets found")
    ELSE [s EXCEPT !.pc = "wallet:set", !.walletSets = WalletSetsOf(response)]

\* createWallet after "Select a wallet set": parseInt(setChoice) - 1 is
\* checked against the range; NaN passes both comparisons and
\* selectedWalletSet.name throws inside the try
WalletSetChoice(s, answer) ==
    LET setChoice == parseInt(askQuestion(answer))
        setIndex == setChoice.val - 1
    IN  IF setChoice.isNaN THEN EndOperation(s, "Error creating wallet")
        ELSE IF setIndex < 0 \/ setIndex >= Len(s.walletSets)
        THEN EndOperation(s, "Invalid wallet set selection")
        ELSE [s EXCEPT !.pc = "wallet:network",
                       !.selectedWalletSet = s.walletSets[setIndex + 1].id]

\* createWallet after "Select a network"
WalletNetworkChoice(s, answer) ==
    LET networkChoice == askQuestion(answer)
    IN  IF networkChoice \notin DOMAIN NETWORKS
        THEN EndOperation(s, "Invalid network selection")
        ELSE [s EXCEPT !.pc = "wallet:count", !.selectedNetwork = NETWORKS[networkChoice]]

\* answers to "How many wallets to create?", as typed
CountInputs == {<<>>, Typed(0), Typed(1), <<"1", "0">>, <<"1", "1">>, <<"-", "1">>, <<"a">>}

\* createWallet after "How many wallets to create?":
\* parseInt(countInput) || 1, then 1..10 is required
WalletCount(s, answer) ==
    LET parsed == parseInt(askQuestion(answer))
        count == IF parsed.isNaN \/ parsed.val = 0 THEN 1 ELSE parsed.val
    IN  IF count < 1 \/ count > 10
        THEN EndOperation(s, "Invalid count")
        ELSE [s EXCEPT !.pc = "wallet:create", !.count = count]

\* createWallet after client.createWallets
WalletsCreated(s, response) ==
    IF response.kind = "throw"
    THEN EndOperation(s, "Error creating wallet")
    ELSE EndOperation(s, "Wallets created successfully")

\* process.on('SIGINT'): goodbye, rl.close(), process.exit(0)
ManagerSigint(s) ==
    [s EXCEPT !.signal = TRUE, !.outcome = "Goodbye!", !.pc = "done", !.exit = "0"]

\* answers to "Select an option (1-4)", as typed
MenuChoices ==
    {Typed(k) : k \in 0..5} \cup {<<>>, <<" ", "4", " ">>, <<"4", "4">>, <<"e", "x", "i", "t">>}

InitManagerSpec == run = InitManager /\ runT = InitRun /\ runR = InitRun /\ call = NoCall

OnManagerInitialize ==
    /\ run.pc = "init"
    /\ \E initialized \in BOOLEAN : run' = ManagerInitialize(run, initialized)
    /\ UNCHANGED <<runT, runR, call>>

OnShowMenu ==
    /\ run.pc = "menu"
    /\ \E answer \in MenuChoices : run' = showMenu(run, answer)
    /\ UNCHANGED <<runT, runR, call>>

OnWaitForUser ==
    /\ run.pc = "waitForUser"
    /\ \E answer \in {<<>>, <<"4">>} : run' = waitForUser(run, answer)
    /\ UNCHANGED <<runT, runR, call>>

OnListSets ==
    /\ run.pc = "list:sets"
    /\ \E response \in ListSetsResponses : run' = ListSets(run, response)
    /\ UNCHANGED <<runT, runR, call>>

OnListWalletsOfSet ==
    /\ run.pc = "list:wallets"
    /\ \E response \in ListWalletsResponses(run.walletSets[run.i].id) :
          run' = ListWalletsOfSet(run, response)
    /\ UNCHANGED <<runT, runR, call>>

OnWalletSetName ==
    /\ run.pc = "set:name"
    /\ \E answer \in {<<>>, <<" ">>, <<"a">>} : run' = WalletSetName(run, answer)
    /\ UNCHANGED <<runT, runR, call>>

OnWalletSetCreated ==
    /\ run.pc = "set:create"
    /\ \E response \in CreateSetResponses : run' = WalletSetCreated(run, response)
    /\ UNCHANGED <<runT, runR, call>>

OnWalletSetsListed ==
    /\ run.pc = "wallet:sets"
    /\ \E response \in ListSetsResponses : run' = WalletSetsListed(run, response)
    /\ UNCHANGED <<runT, runR, call>>

OnWalletSetChoice ==
    /\ run.pc = "wallet:set"
    /\ \E answer \in Choices(Len(run.walletSets)) : run' = WalletSetChoice(run, answer)
    /\ UNCHANGED <<runT, runR, call>>

OnWalletNetworkChoice ==
    /\ run.pc = "wallet:network"
    /\ \E answer \in {Typed(k) : k \in 0..7} \cup {<<>>, <<" ", "3">>} :
          run' = WalletNetworkChoice(run, answer)
    /\ UNCHANGED <<runT, runR, call>>

OnWalletCount ==
    /\ run.pc = "wallet:count"
    /\ \E answer \in CountInputs : run' = WalletCount(run, answer)
    /\ UNCHANGED <<runT, runR, call>>

OnWalletsCreated ==
    /\ run.pc = "wallet:create"
    /\ \E response \in {ListingThrows, NoListing, Listing(<<W1>>)} :
          run' = WalletsCreated(run, response)
    /\ UNCHANGED <<runT, runR, call>>

OnManagerSigint ==
    /\ run.pc # "done"
    /\ run' = ManagerSigint(run)
    /\ UNCHANGED <<runT, runR, call>>

NextManager ==
    \/ OnManagerInitialize
    \/ OnShowMenu
    \/ OnWaitForUser
    \/ OnListSets
    \/ OnListWalletsOfSet
    \/ OnWalletSetName
    \/ OnWalletSetCreated
    \/ OnWalletSetsListed
    \/ OnWalletSetChoice
    \/ OnWalletNetworkChoice
    \/ OnWalletCount
    \/ OnWalletsCreated
    \/ OnManagerSigint

SpecManager == InitManagerSpec /\ [][NextManager]_vars

(***************************************************************************)
(* The entity secret setup (src/setup-entity-secret.js).  SpecSetup        *)
(* follows one run of setupEntitySecret in the variable run.               *)
(***************************************************************************)
\* config.entitySecret: process.env.CIRCLE_ENTITY_SECRET || null
NoSecret == "null"
ConfiguredSecrets == {NoSecret, "configured-secret"}

\* the secrets generateEntitySecret hands to its callback
GeneratedSecrets == {"new-secret-1", "new-secret-2"}

\* a line of the .env file
EnvLine(key, value) == [key |-> key, value |-> value]

\* `CIRCLE_ENTITY_SECRET=${entitySecret}\n`
envContent(entitySecret) == EnvLine("CIRCLE_ENTITY_SECRET", entitySecret)

\* the .env file a run can start with, given the configured secret
EnvFiles(configured) ==
    IF configured = NoSecret
    THEN {<<>>, <<EnvLine("CIRCLE_API_KEY", "key")>>}
    ELSE {<<>>, <<EnvLine("CIRCLE_API_KEY", "key"), envContent(configured)>>}

\* the answers of client.createWalletSet and registerEntitySecretCiphertext:
\* resolved (with or without data), rejected with the code of a secret that
\* was never registered, rejected otherwise
InvalidSecretCode == 156013
Resolved(hasData) == [kind |-> "ok", hasData |-> hasData, code |-> 0]
Rejected(code) == [kind |-> "throw", hasData |-> FALSE, code |-> code]
SetupResponses == {Resolved(TRUE), Resolved(FALSE), Rejected(InvalidSecretCode), Rejected(0)}

\* response.data?.recoveryFile ? "Generated" : "Not available"
RecoveryFileOf(response) == IF response.hasData THEN "Generated" ELSE "Not available"

\* testResponse.data?.walletSet?.id
TestWalletSetOf(response) == IF response.hasData THEN "test-wallet-set" ELSE Undefined

\* the state of a run of the setup before setupEntitySecret is called:
\* envStart and env are the .env file at the start and now, registered the
\* secrets whose registration resolved, recoveryFile and testWalletSet what
\* the run printed of the answers, log what the run did so far
InitSetup(configured, env) ==
    [tool |-> "setup-entity-secret", pc |-> "start", configured |-> configured,
     entitySecret |-> Undefined, envStart |-> env, env |-> env, registered |-> {},
     recoveryFile |-> "none", testWalletSet |-> "none",
     log |-> <<>>, outcome |-> "none", exit |-> "running"]

Note(s, event) == [s EXCEPT !.log = Append(s.log, event)]

\* setupEntitySecret returns (or runs off its end): the process exits
SetupReturn(s, outcome) == [s EXCEPT !.pc = "done", !.outcome = outcome, !.exit = "0"]

\* a test that passed: "Created test wallet set:", then the function is over
TestPassed(s, response, outcome) ==
    SetupReturn([s EXCEPT !.testWalletSet = TestWalletSetOf(response)], outcome)

\* "Generating NEW Entity Secret": up to await generateEntitySecretPromise
Generate(s) == [s EXCEPT !.pc = "generate"]

\* setupEntitySecret up to its first await: a configured secret is tested
\* with a client made of it (a constructor that throws is caught by the
\* catch of the test), otherwise a new one is generated
SetupStart(s, clientMade) ==
    IF s.configured # NoSecret
    THEN IF clientMade
         THEN [s EXCEPT !.pc = "test"]
         ELSE Generate(Note(s, <<"test", "failed">>))
    ELSE Generate(s)

\* after client.createWalletSet of the configured secret (line 22)
Tested(s, response) ==
    IF response.kind = "ok"
    THEN TestPassed(Note(s, <<"test", "passed">>), response, "Entity Secret is VALID and working")
    ELSE IF response.code = InvalidSecretCode
    THEN [Note(s, <<"test", "failed">>) EXCEPT !.pc = "register:existing"]
    ELSE Generate(Note(s, <<"test", "failed">>))

\* after registerEntitySecretCiphertext of the configured secret (line 39)
RegisteredExisting(s, response, clientMade) ==
    IF response.kind = "ok"
    THEN LET t == [Note(s, <<"registered", s.configured>>)
                      EXCEPT !.registered = s.registered \cup {s.configured},
                             !.recoveryFile = RecoveryFileOf(response)]
         IN  IF clientMade
             THEN [t EXCEPT !.pc = "test:again"]
             ELSE Generate(Note(t, <<"test", "failed">>))
    ELSE Generate(s)

\* after client.createWalletSet of the configured secret, now registered
\* (line 54)
TestedAgain(s, response) ==
    IF response.kind = "ok"
    THEN TestPassed(Note(s, <<"test", "passed">>), response, "Entity Secret now works")
    ELSE Generate(Note(s, <<"test", "failed">>))

\* the callback of generateEntitySecret: entitySecret = secret; resolve()
Generated(s, secret) ==
    [Note(s, <<"generated", secret>>) EXCEPT !.pc = "register", !.entitySecret = secret]

\* a faulty variant: the secret is saved before it is registered
RegisteredNew_SavesFirst(s, response, written, clientMade) ==
    LET saved == [Note(s, <<"saved", s.entitySecret>>)
                     EXCEPT !.env = Append(s.env, envContent(s.entitySecret))]
    IN  IF response.kind # "ok"
        THEN SetupReturn(saved, "Failed to register entity secret")
        ELSE LET t == [saved EXCEPT !.registered = s.registered \cup {s.entitySecret},
                                    !.recoveryFile = RecoveryFileOf(response),
                                    !.log = Append(saved.log, <<"registered", s.entitySecret>>)]
             IN  IF clientMade
                 THEN [t EXCEPT !.pc = "test:new"]
                 ELSE SetupReturn(t, "Failed to register entity secret")

\* after registerEntitySecretCiphertext of the new secret (line 99): the
\* secret is appended to .env, then tested; a rejection, a failed write and
\* a constructor that throws all end in the catch of line 128
RegisteredNew(s, response, written, clientMade) ==
    IF response.kind # "ok"
    THEN SetupReturn(s, "Failed to register entity secret")
    ELSE LET t == [Note(s, <<"registered", s.entitySecret>>)
                      EXCEPT !.registered = s.registered \cup {s.entitySecret},
                             !.recoveryFile = RecoveryFileOf(response)]
         IN  IF ~written
             THEN SetupReturn(t, "Failed to register entity secret")
             ELSE LET saved == [Note(t, <<"saved", s.entitySecret>>)
                                   EXCEPT !.env = Append(s.env, envContent(s.entitySecret))]
                  IN  IF clientMade
                      THEN [saved EXCEPT !.pc = "test:new"]
                      ELSE SetupReturn(saved, "Failed to register entity secret")

\* after client.createWalletSet of the new secret (line 120)
TestedNew(s, response) ==
    IF response.kind = "ok"
    THEN TestPassed(s, response, "Entity Secret works")
    ELSE SetupReturn(s, "Failed to register entity secret")

InitSetupSpec ==
    /\ \E configured \in ConfiguredSecrets :
          \E env \in EnvFiles(configured) : run = InitSetup(configured, env)
    /\ runT = InitRun /\ runR = InitRun /\ call = NoCall

OnSetupStart ==
    /\ run.pc = "start"
    /\ \E clientMade \in BOOLEAN : run' = SetupStart(run, clientMade)
    /\ UNCHANGED <<runT, runR, call>>

OnTested ==
    /\ run.pc = "test"
    /\ \E response \in SetupResponses : run' = Tested(run, response)
    /\ UNCHANGED <<runT, runR, call>>

OnRegisteredExisting ==
    /\ run.pc = "register:existing"
    /\ \E response \in SetupResponses, clientMade \in BOOLEAN :
          run' = RegisteredExisting(run, response, clientMade)
    /\ UNCHANGED <<runT, runR, call>>

OnTestedAgain ==
    /\ run.pc = "test:again"
    /\ \E response \in SetupResponses : run' = TestedAgain(run, response)
    /\ UNCHANGED <<runT, runR, call>>

OnGenerated ==
    /\ run.pc = "generate"
    /\ \E secret \in GeneratedSecrets : run' = Generated(run, secret)
    /\ UNCHANGED <<runT, runR, call>>

OnRegisteredNew ==
    /\ run.pc = "register"
    /\ \E response \in SetupResponses, written \in BOOLEAN, clientMade \in BOOLEAN :
          run' = RegisteredNew(run, response, written, clientMade)
    /\ UNCHANGED <<runT, runR, call>>

OnTestedNew ==
    /\ run.pc = "test:new"
    /\ \E response \in SetupResponses : run' = TestedNew(run, response)
    /\ UNCHANGED <<runT, runR, call>>

NextSetup ==
    \/ OnSetupStart
    \/ OnTested
    \/ OnRegisteredExisting
    \/ OnTestedAgain
    \/ OnGenerated
    \/ OnRegisteredNew
    \/ OnTestedNew

SpecSetup == InitSetupSpec /\ [][NextSetup]_vars

(***************************************************************************)
(* Properties.                                                             *)
(***************************************************************************)
Last(seq) == seq[Len(seq)]

IsPrefix(a, b) == Len(a) <= Len(b) /\ a = SubSeq(b, 1, Len(a))

Has(seq, e) == \E i \in 1..Len(seq) : seq[i] = e

IsMint(request) == request.abiFunctionSignature = "receiveMessage(bytes,bytes)"

MintSubmitted(s) == \E i \in 1..Len(s.calls) : IsMint(s.calls[i])

\* the source blockchain of a run
SourceChainOf(s) == IF s.mode = "transfer" THEN s.sourceWallet.blockchain ELSE s.sourceBlockchain

FailureOutcomes == {"Cross-chain transfer failed", "Recovery failed"}

TxSteps == {"Approval", "Burn", "Mint"}

\* C1: a mint is submitted only after the attestation poll of the run returned
\* an attestation for the run's burn hash and source domain; the mint carries
\* that attestation.
C1_MintOnlyAfterAttestation ==
    MintSubmitted(run) =>
        /\ "Attestation" \in run.observed
        /\ Has(run.trace, <<"attest", "received">>)
        /\ run.attKey = <<getCCTPDomainId(SourceChainOf(run)), run.burnTxHash>>
        /\ run.attestation.attestation = SigOf(run.attKey)
        /\ Last(run.calls).abiParameters
             = <<run.attestation.message, run.attestation.attestation>>
        /\ run.mode = "transfer" =>
             /\ "Burn" \in run.observed
             /\ run.burnTxHash \in {HashOf(run.ids[2]), Undefined}

C1_Witness ==
    /\ run.mode = "transfer" /\ MintSubmitted(run)
    /\ run.burnTxHash = "0xb1" /\ run.approvalTxHash = "0xa1"

\* the order of the steps of a full transfer
TransferOrder ==
    << <<"submit", "Approval">>, <<"poll", "Approval">>, <<"confirmed", "Approval">>,
       <<"submit", "Burn">>, <<"poll", "Burn">>, <<"confirmed", "Burn">>,
       <<"attest", "start">>, <<"attest", "received">>,
       <<"submit", "Mint">>, <<"poll", "Mint">>, <<"confirmed", "Mint">> >>

\* C2: the steps of a full transfer happen in the order approve, burn,
\* attest, mint, none skipped; the burn is submitted only after the approval
\* was seen CONFIRMED, the attestation poll starts only after the burn was
\* seen CONFIRMED, the mint is submitted only after the attestation arrived.
C2_StepsInOrder ==
    run.mode = "transfer" =>
        /\ IsPrefix(run.trace, TransferOrder)
        /\ Len(run.calls) >= 2 => "Approval" \in run.observed
        /\ Has(run.trace, <<"attest", "start">>) => "Burn" \in run.observed
        /\ Len(run.calls) >= 3 => "Attestation" \in run.observed
        /\ Len(run.calls) <= 3
        /\ Has(run.trace, <<"confirmed", "Mint">>) => "Mint" \in run.observed

C2_Witness ==
    run.mode = "transfer" /\ run.trace = TransferOrder /\ run.pc = "done"

\* something failed: a transaction was created without an id, or a poll used
\* up its attempts without a success
FailureObserved(s) ==
    \/ s.pc \in {"poll", "done"} /\ Len(s.ids) > 0 /\ Last(s.ids) = Undefined
    \/ s.loop \in TxSteps /\ s.queries >= TxMaxAttempts /\ s.firstConfirmed = 0
    \/ s.loop = "Attestation" /\ s.queries >= AttMaxAttempts /\ s.firstAttested = 0

\* the custody transactions a run may submit, in order
SagaCalls(s) ==
    IF s.mode = "transfer"
    THEN <<"approve(address,uint256)", "depositForBurn(uint256,uint32,bytes32,address)",
           "receiveMessage(bytes,bytes)">>
    ELSE <<"receiveMessage(bytes,bytes)">>

\* C3: when a step fails the run halts as failed: nothing was done after the
\* failing step began, no poll runs for a transaction without an id, and the
\* only transactions ever submitted are the saga's own (no compensation).
C3_FailureHalts ==
    /\ FailureObserved(run) =>
         /\ run.pc = "done" /\ run.outcome \in FailureOutcomes /\ run.exit = "0"
         /\ Last(run.trace) \in {<<"submit", run.step>>, <<"poll", run.step>>, <<"attest", "start">>}
         /\ Len(run.ids) = Len(run.calls) \/ run.step = "Attestation"
    /\ run.pc = "poll" => run.txId # Undefined
    /\ Len(run.calls) <= Len(SagaCalls(run))
    /\ \A i \in 1..Len(run.calls) : run.calls[i].abiFunctionSignature = SagaCalls(run)[i]

C3_Witness ==
    /\ run.mode = "transfer" /\ run.pc = "done" /\ run.step = "Burn"
    /\ Len(run.ids) = 2 /\ Last(run.ids) = Undefined
    /\ Len(run.calls) = 2

\* the hash the code kept of the transaction of a step
HashKept(s, step) ==
    CASE step = "Approval" -> s.approvalTxHash
      [] step = "Burn" -> s.burnTxHash
      [] OTHER -> s.mintTxHash

\* C4: waitForTransactionCompletion returns, with its hash, on the first
\* answer that reports CONFIRMED and asks no more: if the k-th answer is the
\* first CONFIRMED one, exactly k queries were made; and it returns on no
\* other answer.
C4_ReturnsOnFirstConfirmed ==
    run.loop \in TxSteps =>
        /\ run.firstConfirmed > 0 =>
             /\ run.queries = run.firstConfirmed
             /\ run.attempts = run.firstConfirmed - 1
             /\ run.pc # "poll"
             /\ Has(run.trace, <<"confirmed", run.loop>>)
             /\ HashKept(run, run.loop) = run.firstHash
        /\ Has(run.trace, <<"confirmed", run.loop>>) => run.firstConfirmed > 0

C4_Witness ==
    /\ run.loop = "Approval" /\ run.firstConfirmed = 3 /\ run.queries = 3
    /\ run.approvalTxHash = "0xa1" /\ Has(run.trace, <<"confirmed", "Approval">>)

\* the run ended with the timeout of waitForTransactionCompletion
TxTimedOut(s) == s.pc = "done" /\ s.error = TxTimeout

\* C5: waitForTransactionCompletion makes at most maxAttempts queries for
\* one transaction and throws its timeout exactly when maxAttempts queries
\* were made and none was answered CONFIRMED.
C5_TxPollBudget ==
    /\ run.loop \in TxSteps =>
         /\ run.queries <= TxMaxAttempts
         /\ TxTimedOut(run) <=> (run.queries = TxMaxAttempts /\ run.firstConfirmed = 0)
    /\ TxTimedOut(run) => run.loop \in TxSteps

C5_Witness ==
    TxTimedOut(run) /\ run.loop = "Burn" /\ run.queries = TxMaxAttempts

\* C6: waitForAttestation polls on, at the cost of one attempt, after a 404,
\* after a response without messages and after a first message without
\* attestation (unless SIGINT ends the process); it returns on the first
\* response whose first message has an attestation and asks no more.
C6_AttestationPollRetries ==
    run.loop = "Attestation" =>
        /\ run.answer \in {"404", "no messages", "no attestation"} =>
             /\ run.firstAttested = 0
             /\ run.attempts = run.queries
             /\ run.pc = "attest" \/ run.queries = AttMaxAttempts \/ run.signal
        /\ run.firstAttested > 0 =>
             /\ run.queries = run.firstAttested
             /\ run.answer = "attestation"
             /\ run.pc # "attest"
             /\ Has(run.trace, <<"attest", "received">>)
        /\ Has(run.trace, <<"attest", "received">>) => run.firstAttested > 0

C6_Witness ==
    /\ run.loop = "Attestation" /\ run.firstAttested = 4 /\ run.queries = 4
    /\ Has(run.trace, <<"attest", "received">>)

\* C7 as claimed: whatever waitForAttestation returns has a non-empty message
\* and a non-empty attestation.
C7_ReturnsMessageAndAttestation ==
    Has(run.trace, <<"attest", "received">>) =>
        run.attestation.message # Empty /\ run.attestation.attestation # Empty

\* C7, amended: whatever waitForAttestation returns has a non-empty
\* attestation, the one of the first message for the key asked about; the
\* message is passed on as it came, empty or not, and a first message with
\* an attestation is a success either way.
C7_ReturnsAttestation ==
    /\ Has(run.trace, <<"attest", "received">>) =>
         /\ run.attestation.attestation = SigOf(run.attKey)
         /\ run.attestation.attestation # Empty
         /\ run.attestation.message \in {Empty, MsgOf(run.attKey)}
    /\ run.loop = "Attestation" /\ run.answer = "attestation" =>
         Has(run.trace, <<"attest", "received">>)

C7_Witness ==
    /\ Has(run.trace, <<"attest", "received">>) /\ run.attestation.message = Empty
    /\ MintSubmitted(run) /\ Last(run.calls).abiParameters[1] = Empty

\* the run ended with the timeout of waitForAttestation
AttTimedOut(s) == s.pc = "done" /\ s.error = AttTimeout

\* C8: in waitForAttestation a non-success status other than 404 and a
\* thrown request error are logged and cost exactly one attempt, and the
\* loop goes on: none of them ends the poll before the attempts are used up
\* (only SIGINT, which ends the process, does).
C8_AttestationErrorsRetried ==
    run.loop = "Attestation" /\ run.answer \in {"http error", "throw"} =>
        /\ run.log = "Could not check attestation status"
        /\ run.attempts = run.queries
        /\ \/ run.pc = "attest" /\ run.queries < AttMaxAttempts
           \/ AttTimedOut(run) /\ run.queries = AttMaxAttempts
           \/ run.signal /\ run.queries < AttMaxAttempts

C8_Witness ==
    /\ run.loop = "Attestation" /\ run.answer = "http error" /\ run.pc = "attest"
    /\ run.queries = 5

\* C9: waitForAttestation makes at most maxAttempts requests and throws its
\* timeout exactly when maxAttempts requests were made and none carried an
\* attestation; every request without one costs exactly one attempt.
C9_AttestationPollBudget ==
    /\ run.loop = "Attestation" =>
         /\ run.queries <= AttMaxAttempts
         /\ AttTimedOut(run) <=> (run.queries = AttMaxAttempts /\ run.firstAttested = 0)
         /\ run.firstAttested = 0 => run.attempts = run.queries
    /\ AttTimedOut(run) => run.loop = "Attestation"

C9_Witness ==
    AttTimedOut(run) /\ run.queries = AttMaxAttempts /\ run.mode = "recover"

\* the mint transactions a run submitted
MintCalls(s) == SelectSeq(s.calls, IsMint)

\* how a run ended from the attestation step on
MintOutcome(s) ==
    CASE s.pc # "done" -> <<"running", "">>
      [] s.outcome \in FailureOutcomes -> <<"failed", s.error>>
      [] s.outcome \in {"CROSS-CHAIN TRANSFER COMPLETED SUCCESSFULLY",
                        "RECOVERY COMPLETED SUCCESSFULLY"} -> <<"minted", "">>
      [] OTHER -> <<s.outcome, s.error>>

\* C10: given the same burn hash, source blockchain and destination wallet
\* and the same answers of the services, the recovery asks for the same
\* attestation, submits the same mint transaction and ends as the attest and
\* mint steps of the full transfer do.
C10_RecoveryMintsAsTransfer ==
    /\ runT.pc = runR.pc /\ runT.step = runR.step
    /\ runT.attKey = runR.attKey
    /\ runT.attempts = runR.attempts /\ runT.queries = runR.queries
    /\ runT.attestation = runR.attestation
    /\ MintCalls(runT) = MintCalls(runR)
    /\ runT.pc = "poll" => runT.txId = runR.txId
    /\ runT.mintTxHash = runR.mintTxHash
    /\ MintOutcome(runT) = MintOutcome(runR)
    /\ runT.exit = runR.exit

C10_Witness ==
    /\ runT.mode = "transfer" /\ runR.mode = "recover"
    /\ MintOutcome(runT) = <<"minted", "">> /\ MintOutcome(runR) = <<"minted", "">>
    /\ Len(MintCalls(runR)) = 1 /\ runR.mintTxHash = "0xc1"
    /\ runR.destinationWallet = W3

\* the trace of a recovery: the attestation poll, then the one mint
RecoverOrder ==
    << <<"attest", "start">>, <<"attest", "received">>,
       <<"submit", "Mint">>, <<"poll", "Mint">>, <<"confirmed", "Mint">> >>

\* C11: a recovery enters the saga at the attestation poll and never submits
\* an approve or a depositForBurn: the only custody transaction it submits is
\* one receiveMessage, by the destination wallet, after the attestation.
C11_RecoverySubmitsOnlyMint ==
    run.mode = "recover" =>
        /\ IsPrefix(run.trace, RecoverOrder)
        /\ Len(run.calls) <= 1
        /\ \A i \in 1..Len(run.calls) :
             /\ IsMint(run.calls[i])
             /\ run.calls[i].walletId = run.destinationWallet.id
        /\ Len(run.ids) <= 1
        /\ run.approvalTxHash = Undefined

C11_Witness ==
    /\ run.mode = "recover" /\ run.trace = RecoverOrder
    /\ run.outcome = "RECOVERY COMPLETED SUCCESSFULLY" /\ Len(run.calls) = 1

\* a 20-byte address as 32 bytes: twelve zero bytes, then the address
Bytes32Of(address) == <<"0", "x">> \o Repeat("0", 24) \o SubSeq(address, 3, Len(address))

TransferCompleted(s) ==
    s.mode = "transfer" /\ s.outcome = "CROSS-CHAIN TRANSFER COMPLETED SUCCESSFULLY"

\* C12: a transfer of amount A that completes made exactly these external
\* calls, in this order: approve of A * 10^6 base units, depositForBurn of
\* A * 10^6 base units to the destination chain's domain and the encoded
\* destination address, the attestation poll for the source chain's domain and
\* the hash of the confirmed burn, and receiveMessage by the destination
\* wallet with the message and attestation the poll returned; the amount
\* reported is A.
C12_HappyPathCalls ==
    TransferCompleted(run) =>
        LET A == run.shown.amount
            src == run.shown.source
            dst == run.shown.destination
        IN  /\ run.trace = TransferOrder
            /\ Len(run.calls) = 3
            /\ run.calls[1] =
                 [walletId |-> src.id,
                  contractAddress |-> usdcContract(src.blockchain),
                  abiFunctionSignature |-> "approve(address,uint256)",
                  abiParameters |-> <<TokenMessenger, A * 1000000>>]
            /\ run.calls[2] =
                 [walletId |-> src.id,
                  contractAddress |-> TokenMessenger,
                  abiFunctionSignature |-> "depositForBurn(uint256,uint32,bytes32,address)",
                  abiParameters |-> <<A * 1000000, getCCTPDomainId(dst.blockchain),
                                      Bytes32Of(dst.address), usdcContract(src.blockchain)>>]
            /\ getCCTPDomainId(dst.blockchain) # NoDomain
            /\ run.attKey[1] = getCCTPDomainId(src.blockchain)
            /\ run.attKey[2] = run.burnTxHash
            /\ run.burnTxHash \in {HashOf(run.ids[2]), Undefined}
            /\ run.attestation.attestation = SigOf(run.attKey)
            /\ run.calls[3] =
                 [walletId |-> dst.id,
                  contractAddress |-> getMessageTransmitterAddress(dst.blockchain),
                  abiFunctionSignature |-> "receiveMessage(bytes,bytes)",
                  abiParameters |-> <<run.attestation.message, run.attestation.attestation>>]
            /\ A > 0 /\ run.reported = A

C12_Witness ==
    /\ TransferCompleted(run) /\ run.shown.amount = 1 /\ run.reported = 1
    /\ run.shown.source = W1 /\ run.shown.destination = W3
    /\ run.attKey = <<0, "0xb1">> /\ run.calls[2].abiParameters[2] = 1

\* the domain ids of the CCTP networks
AgreedDomain(chain) ==
    CASE chain \in {"ETH", "ETH-SEPOLIA"} -> 0
      [] chain = "AVAX" -> 1
      [] chain \in {"MATIC", "MATIC-AMOY"} -> 7

\* C13: getCCTPDomainId returns, for each of ETH, MATIC, AVAX, ETH-SEPOLIA
\* and MATIC-AMOY, the fixed integer of that chain (the same at every call),
\* and throws its unsupported-blockchain error for every other identifier.
C13_DomainIdTable ==
    call.fn = "getCCTPDomainId" =>
        /\ call.chain \in SUPPORTED_NETWORKS =>
             /\ ~call.threw
             /\ call.domain \in Nat
             /\ call.domain = AgreedDomain(call.chain)
        /\ call.chain \notin SUPPORTED_NETWORKS => call.threw
        /\ call.prevChain = call.chain => call.prevDomain = call.domain

C13_Witness ==
    /\ call.fn = "getCCTPDomainId" /\ call.chain = "ARB" /\ call.threw
    /\ call.prevChain = "MATIC-AMOY" /\ call.prevDomain = 7

HexChars ==
    {"0", "1", "2", "3", "4", "5", "6", "7", "8", "9",
     "a", "b", "c", "d", "e", "f", "A", "B", "C", "D", "E", "F"}

IsHex(s) == \A i \in 1..Len(s) : s[i] \in HexChars

\* "0x" and exactly 64 hex characters
Is64Hex(s) == Len(s) = 66 /\ s[1] = "0" /\ s[2] = "x" /\ IsHex(SubSeq(s, 3, 66))

\* a 20-byte hex address, with or without "0x"
WellFormedAddress(s) == Len(StripHexPrefix(s)) = 40 /\ IsHex(StripHexPrefix(s))

\* C14 as claimed: the result of addressToBytes32 always has exactly 64 hex
\* characters, with or without "0x" in the argument, and encoding a result
\* again gives it back unchanged.
C14_IdempotentAnd64Hex ==
    call.fn = "addressToBytes32" =>
        /\ Is64Hex(call.bytes32)
        /\ call.again => call.bytes32 = call.address

\* what of C14 the code does: encoding a result again gives it back, and the
\* result has exactly 64 hex characters when the argument has at most 64 hex
\* digits
C14_HoldsOfHexArguments ==
    call.fn = "addressToBytes32" =>
        /\ call.again => call.bytes32 = call.address
        /\ IsHex(StripHexPrefix(call.address)) /\ Len(StripHexPrefix(call.address)) <= 64
             => Is64Hex(call.bytes32)

\* C15 as claimed: addressToBytes32 fails for an argument that is not a
\* well-formed 20-byte hex address, and pads a well-formed one with zeros on
\* the left to 32 bytes.
C15_RejectsMalformedAddress ==
    call.fn = "addressToBytes32" =>
        IF WellFormedAddress(call.address)
        THEN /\ ~call.threw
             /\ call.bytes32 = <<"0", "x">> \o Repeat("0", 24) \o StripHexPrefix(call.address)
        ELSE call.threw

\* what of C15 the code does: a well-formed address is padded to 32 bytes
C15_PadsWellFormed ==
    call.fn = "addressToBytes32" /\ WellFormedAddress(call.address) =>
        call.bytes32 = <<"0", "x">> \o Repeat("0", 24) \o StripHexPrefix(call.address)

\* C16 as claimed: no failure inside performCrossChainTransfer or
\* recoverFromBurn (an API error, a timeout, an invalid or non-numeric answer)
\* leaves the operation: each is caught and logged there and the operation
\* returns to main, so the process never ends with exit code 1 from them.
C16_NoCrash ==
    run.mode \in {"transfer", "recover"} =>
        /\ run.exit # "1"
        /\ run.error # "" => run.pc = "done" /\ run.exit = "0"

\* what of C16 the code does: the transfer never ends with exit code 1, and
\* the recovery does only by a non-numeric destination answer
C16_CrashOnlyInRecoveryPrompt ==
    run.exit = "1" =>
        /\ run.mode = "recover" /\ run.error = TypeError
        /\ run.trace = <<>> /\ run.calls = <<>>

\* how often an event is in a trace
RECURSIVE Count(_, _)
Count(seq, e) ==
    IF seq = <<>> THEN 0
    ELSE (IF seq[1] = e THEN 1 ELSE 0) + Count(SubSeq(seq, 2, Len(seq)), e)

\* the signatures of the custody transactions a run submitted
Signatures(s) == [i \in 1..Len(s.calls) |-> s.calls[i].abiFunctionSignature]

\* C17: nothing is retried above the poll loops: in one run the approval, the
\* burn and the mint are each submitted at most once, and the poll of each
\* transaction and the attestation poll are each started at most once, also
\* after a failure.
C17_NoRetry ==
    /\ \A step \in TxSteps :
         /\ Count(run.trace, <<"submit", step>>) <= 1
         /\ Count(run.trace, <<"poll", step>>) <= 1
    /\ Count(run.trace, <<"attest", "start">>) <= 1
    /\ \A sig \in {"approve(address,uint256)",
                   "depositForBurn(uint256,uint32,bytes32,address)",
                   "receiveMessage(bytes,bytes)"} : Count(Signatures(run), sig) <= 1
    /\ Len(run.ids) <= Len(run.calls)
    /\ run.outcome \in FailureOutcomes => run.pc = "done"

C17_Witness ==
    /\ run.mode = "transfer" /\ TxTimedOut(run) /\ run.loop = "Burn"
    /\ Count(run.trace, <<"submit", "Burn">>) = 1 /\ Count(run.trace, <<"poll", "Burn">>) = 1
    /\ Count(Signatures(run), "approve(address,uint256)") = 1

\* the external requests a run made so far: the custody transactions it
\* submitted, and the status and attestation requests of the running poll
Requests(s) == <<Len(s.calls), Len(s.ids), s.loop, s.queries, s.trace>>

\* C18: SIGINT, at whatever await the run is (a prompt, a submission, inside
\* a poll loop), ends the process with exit code 0; an error that reaches the
\* top of main ends it with exit code 1; once the process has ended nothing
\* more happens: no custody or attestation request is made after it.
C18_InterruptAndCrashExit ==
    /\ [](run.signal => run.pc = "done" /\ run.exit = "0")
    /\ [](run.outcome = "Unexpected error" => run.pc = "done" /\ run.exit = "1")
    /\ [](run.exit = "1" => run.outcome = "Unexpected error")
    /\ [](run.pc = "done" <=> run.exit # "running")
    /\ [][run.exit # "running" => run' = run]_vars
    /\ [][run'.signal /\ ~run.signal => Requests(run') = Requests(run)]_vars

C18_Witness ==
    /\ run.signal /\ run.exit = "0" /\ run.mode = "transfer"
    /\ run.loop = "Attestation" /\ run.queries = 7 /\ run.step = "Attestation"
    /\ Len(run.calls) = 2

\* the awaits at which the run waits for the user, not for a service
Prompts == {"menu", "sourceChoice", "destChoice", "amount", "confirm", "burnHash", "sourceChain"}

\* the awaits at which the run waits for the answer of a service
Awaits == {"wallets", "balance", "create", "poll", "attest"}

\* C19: the run is sequential: at most one external request (a custody call
\* or an attestation fetch) is outstanding at any moment and at most one poll
\* loop is active; a poll loop is left before the next transaction is
\* submitted or the next loop entered, so no two transactions are polled at
\* the same time.
C19_OneRequestOneLoop ==
    /\ run.pending \in {0, 1}
    /\ Cardinality(run.active) <= 1
    /\ run.pc \in Prompts \cup {"init"} => run.pending = 0 /\ run.active = {}
    /\ run.pc \in Awaits => run.pending = 1
    /\ run.pc \in {"poll", "attest"} => run.active = {run.step} /\ run.loop = run.step
    /\ run.pc \in {"wallets", "balance", "create"} => run.active = {}
    /\ run.pc = "done" /\ ~run.signal => run.pending = 0 /\ run.active = {}

C19_Witness ==
    /\ run.pc = "poll" /\ run.step = "Mint" /\ run.active = {"Mint"} /\ run.pending = 1
    /\ run.queries = 2 /\ run.observed = {"Approval", "Burn", "Attestation"}

\* the transfer a run works on
Intent(s) == <<s.sourceWallet, s.destinationWallet, s.transferAmount, s.shown>>

\* the wallets of the run with a given id
WalletsWithId(s, id) ==
    {s.supportedWallets[i] : i \in {j \in 1..Len(s.supportedWallets) : s.supportedWallets[j].id = id}}

\* C20: once the saga of a transfer has started, its source wallet,
\* destination wallet and amount are those of the confirmation screen and
\* never change; the approval and the burn are submitted by the source wallet
\* with the same base-unit amount, and the mint is submitted by the wallet
\* whose address the burn names as recipient.
C20_IntentFixed ==
    /\ [](run.mode = "transfer" /\ Len(run.calls) >= 1 =>
            /\ run.shown.amount > 0 /\ run.shown.source # run.shown.destination
            /\ Intent(run) = <<run.shown.source, run.shown.destination, run.shown.amount,
                               run.shown>>
            /\ run.calls[1].walletId = run.shown.source.id
            /\ run.calls[1].abiParameters[2] = run.shown.amount * 1000000
            /\ Len(run.calls) >= 2 =>
                 /\ run.calls[2].walletId = run.shown.source.id
                 /\ run.calls[2].abiParameters[1] = run.calls[1].abiParameters[2]
                 /\ run.calls[2].abiParameters[3] = Bytes32Of(run.shown.destination.address)
            /\ Len(run.calls) >= 3 =>
                 /\ run.calls[3].walletId = run.shown.destination.id
                 /\ \A w \in WalletsWithId(run, run.calls[3].walletId) :
                      Bytes32Of(w.address) = run.calls[2].abiParameters[3]
                 /\ WalletsWithId(run, run.calls[3].walletId) # {})
    /\ [][run.mode = "transfer" /\ Len(run.calls) >= 1 => Intent(run') = Intent(run)]_vars

C20_Witness ==
    /\ run.mode = "transfer" /\ Len(run.calls) = 3 /\ run.pc = "done"
    /\ run.shown.source = W3 /\ run.shown.destination = W1 /\ run.shown.amount = 1
    /\ run.calls[3].walletId = "w1" /\ run.outcome = "Cross-chain transfer failed"

\* the wallet sets a call of getAllWallets got listed
SetsListed(c) ==
    IF c.walletSetsResponse.kind = "ok" /\ c.walletSetsResponse.hasData
    THEN c.walletSetsResponse.walletSets
    ELSE <<>>

\* the wallets the listing of a wallet set gave, none if it failed
ListingOf(c, walletSet) ==
    IF c.listings[walletSet.id].kind = "ok" /\ c.listings[walletSet.id].hasData
    THEN c.listings[walletSet.id].wallets
    ELSE <<>>

RECURSIVE SumLen(_, _)
SumLen(c, walletSets) ==
    IF walletSets = <<>> THEN 0
    ELSE Len(ListingOf(c, Head(walletSets))) + SumLen(c, Tail(walletSets))

\* C21: getAllWallets returns one list with the wallets of every wallet set
\* whose listing succeeded, each with the name and id of its set, and nothing
\* else; a set whose listing fails is skipped and the wallets of the other
\* sets stay; when the sets cannot be listed the list is empty.
C21_AllWalletsAggregated ==
    call.fn = "getAllWallets" =>
        /\ call.walletSetsResponse.kind = "throw" => call.wallets = <<>>
        /\ \A i \in 1..Len(SetsListed(call)) :
             \A j \in 1..Len(ListingOf(call, SetsListed(call)[i])) :
               \E k \in 1..Len(call.wallets) :
                 call.wallets[k] =
                   [ListingOf(call, SetsListed(call)[i])[j] EXCEPT
                      !.walletSetName = SetsListed(call)[i].name,
                      !.walletSetId = SetsListed(call)[i].id]
        /\ \A k \in 1..Len(call.wallets) :
             \E i \in 1..Len(SetsListed(call)) :
               /\ call.listings[SetsListed(call)[i].id].kind = "ok"
               /\ call.wallets[k].walletSetId = SetsListed(call)[i].id
               /\ call.wallets[k].walletSetName = SetsListed(call)[i].name
               /\ \E j \in 1..Len(ListingOf(call, SetsListed(call)[i])) :
                    ListingOf(call, SetsListed(call)[i])[j] = Listed(call.wallets[k])
        /\ Len(call.wallets) = SumLen(call, SetsListed(call))

C21_Witness ==
    /\ call.fn = "getAllWallets" /\ Len(SetsListed(call)) = 2
    /\ call.listings[S1.id].kind = "throw" /\ call.wallets = <<W3>>

\* a string occurs in another one
Contains(str, part) ==
    \E i \in 1..(Len(str) + 1 - Len(part)) : SubSeq(str, i, i + Len(part) - 1) = part

\* a balance entry is one of USDC: by symbol, or by a name with "USD Coin" in it
Matches(b) ==
    b.token.present
    /\ (b.token.symbol = "USDC" \/ (b.token.hasName /\ Contains(b.token.name, UsdCoin)))

\* the decimal strings that stand for a number below ten
TextsOf(n) == {<<Digits[n + 1]>>, <<Digits[n + 1], ".", "0">>}

\* C22: findUSDCBalance returns the amount of the first balance entry whose
\* token symbol is USDC or whose token name contains "USD Coin", and zero
\* when no entry matches; when the balance lookup failed the list is empty
\* and the balance is zero.
C22_FirstUsdcEntryOrZero ==
    call.fn = "findUSDCBalance" =>
        /\ call.balanceResponse.kind = "throw" => call.tokenBalances = <<>>
        /\ (\A i \in 1..Len(call.tokenBalances) : ~Matches(call.tokenBalances[i]))
               => call.balance = 0
        /\ \A i \in 1..Len(call.tokenBalances) :
             /\ Matches(call.tokenBalances[i])
             /\ \A j \in 1..(i - 1) : ~Matches(call.tokenBalances[j])
             => call.tokenBalances[i].amount \in TextsOf(call.balance)

C22_Witness ==
    /\ call.fn = "findUSDCBalance" /\ Len(call.tokenBalances) = 2
    /\ ~Matches(call.tokenBalances[1]) /\ call.tokenBalances[1].amount = <<"0">>
    /\ Matches(call.tokenBalances[2]) /\ call.tokenBalances[2].token.symbol # "USDC"
    /\ call.balance = 1

\* an answer is yes or y, in any case
IsYes(confirmation) ==
    \/ Len(confirmation) = 1 /\ confirmation[1] \in {"y", "Y"}
    \/ /\ Len(confirmation) = 3
       /\ confirmation[1] \in {"y", "Y"}
       /\ confirmation[2] \in {"e", "E"}
       /\ confirmation[3] \in {"s", "S"}

\* C23: performCrossChainTransfer submits its first custody transaction only
\* in the step that reads the answer to the confirmation prompt, and only
\* when that answer is yes or y in any case; any other answer cancels the
\* transfer, and a cancelled transfer has submitted nothing.
C23_OnlyAfterYes ==
    /\ [][run'.mode = "transfer" /\ run.calls = <<>> /\ run'.calls # <<>>
            => run.pc = "confirm" /\ IsYes(run'.confirmation)]_vars
    /\ [][run.mode = "transfer" /\ run.pc = "confirm" /\ run'.pc # "confirm"
          /\ ~run'.signal /\ ~IsYes(run'.confirmation)
            => run'.outcome = "Transfer cancelled" /\ run'.exit = "0"]_vars
    /\ [](run.outcome = "Transfer cancelled" => run.calls = <<>>)

C23_Witness ==
    /\ run.mode = "transfer" /\ Len(run.calls) = 1 /\ run.pc = "create"
    /\ run.confirmation = <<"Y", "e", "s">>

\* the LIVE wallets on supported networks among the listed ones
LiveSupported(allWallets) ==
    {i \in 1..Len(allWallets) :
        allWallets[i].state = "LIVE" /\ allWallets[i].blockchain \in SUPPORTED_NETWORKS}

\* the returns of performCrossChainTransfer on a precondition that fails
Rejections ==
    {"No wallets found", "You need at least 2 wallets on supported networks",
     "Source wallet has no USDC balance", "No wallets found on different networks",
     "Invalid amount", "Insufficient balance"}

\* C24: a transfer that has submitted a transaction had at least two LIVE
\* wallets on supported networks listed, a source wallet (one of them) with a
\* USDC balance above zero, a destination wallet (one of them) on another
\* blockchain than the source, and an amount above zero and not above the
\* balance; a transfer that returned on one of these checks has submitted
\* nothing.
C24_SagaOnlyOnPreconditions ==
    /\ run.mode = "transfer" /\ run.calls # <<>> =>
         /\ Cardinality(LiveSupported(run.allWallets)) >= 2
         /\ \E i \in LiveSupported(run.allWallets) : run.allWallets[i] = run.sourceWallet
         /\ \E i \in LiveSupported(run.allWallets) : run.allWallets[i] = run.destinationWallet
         /\ run.sourceUSDCBalance > 0
         /\ run.destinationWallet.blockchain # run.sourceWallet.blockchain
         /\ run.transferAmount > 0
         /\ run.transferAmount <= run.sourceUSDCBalance
    /\ run.mode = "transfer" /\ run.outcome \in Rejections =>
         run.calls = <<>> /\ run.pc = "done" /\ run.exit = "0"

C24_Witness ==
    /\ run.mode = "transfer" /\ Len(run.calls) = 3 /\ Len(run.allWallets) = 4
    /\ run.transferAmount = run.sourceUSDCBalance

\* the number of wallets the last wallet prompt listed
NumListed(s) ==
    IF s.selection.prompt = "source" THEN Len(s.supportedWallets) ELSE Len(s.destinationWallets)

\* an answer is an integer between 1 and n, n below ten
ValidSelection(answer, n) == \E k \in 1..n : answer = <<Digits[k + 1]>>

\* an answer is made of decimal digits, with or without a minus sign
IsNumeric(answer) ==
    /\ answer # <<>>
    /\ \A i \in 1..Len(answer) :
         (\E d \in 1..Len(Digits) : Digits[d] = answer[i]) \/ (i = 1 /\ answer[i] = "-")
    /\ answer # <<"-">>

InvalidSelection == {"Invalid source wallet selection", "Invalid destination wallet selection"}

\* C25: an answer to a wallet prompt that is not an integer between 1 and
\* the number of listed wallets ends the operation with the invalid
\* selection message, exit code 0 and no transaction submitted (unless the
\* run was interrupted).
C25_InvalidSelectionRejected ==
    /\ run.selection.prompt # "none"
    /\ ~ValidSelection(run.selection.answer, NumListed(run))
    /\ ~run.signal
    => /\ run.outcome \in InvalidSelection
       /\ run.calls = <<>>
       /\ run.exit = "0"

\* what holds instead: a numeric answer out of range is rejected with the
\* message and nothing is submitted; an answer that is not numeric is never
\* rejected with it
C25_OutOfRangeRejected ==
    /\ run.selection.prompt # "none"
    /\ ~ValidSelection(run.selection.answer, NumListed(run))
    /\ ~run.signal
    => /\ IsNumeric(run.selection.answer) =>
            run.outcome \in InvalidSelection /\ run.calls = <<>> /\ run.exit = "0"
       /\ run.selection.answer \in {<<>>, <<"a", "b", "c">>} =>
            /\ run.outcome \notin InvalidSelection
            /\ run.error = TypeError
            /\ run.calls = <<>>
            /\ run.exit = IF run.mode = "recover" THEN "1" ELSE "0"

\* the answers to a status query on which the poll goes on
NotConfirmed == {"throw", "notx", "pending", "FAILED"}

\* C26: in waitForTransactionCompletion a status query that throws, a
\* response without a transaction and a state other than CONFIRMED, FAILED
\* included, each cost exactly one attempt and the poll goes on while the
\* budget lasts; the poll is left only after a CONFIRMED answer or after
\* maxAttempts queries (or when SIGINT ends the process).
C26_TxPollStopsOnlyOnConfirmedOrBudget ==
    /\ [](run.loop \in TxSteps =>
            /\ run.answer \in NotConfirmed =>
                 /\ run.firstConfirmed = 0
                 /\ run.attempts = run.queries
                 /\ run.pc = "poll" \/ run.queries = TxMaxAttempts \/ run.signal
            /\ run.pc # "poll" /\ ~run.signal =>
                 run.answer = "CONFIRMED" \/ run.queries = TxMaxAttempts)
    /\ [][run.pc = "poll" /\ run'.loop = run.loop /\ run'.queries = run.queries + 1
          /\ run'.answer \in NotConfirmed
            => /\ run'.attempts = run.attempts + 1
               /\ run'.pc = "poll" \/ run'.attempts = TxMaxAttempts]_vars

C26_Witness ==
    /\ run.loop = "Burn" /\ run.pc = "poll" /\ run.answer = "FAILED"
    /\ run.queries = 3 /\ run.attempts = 3

\* the destination domain of the burn a transfer submitted
BurnDomain(s) == s.calls[2].abiParameters[2]

\* C27: the domain id a transfer puts into its burn as destination domain
\* differs from the domain id of the source wallet's chain, under which the
\* attestation is fetched afterwards.
C27_BurnDomainDiffers ==
    run.mode = "transfer" /\ Len(run.calls) >= 2 =>
        /\ BurnDomain(run) # AgreedDomain(run.sourceWallet.blockchain)
        /\ run.attKey[1] # NoDomain => BurnDomain(run) # run.attKey[1]

\* what holds instead: the two wallets are on blockchains with different
\* identifiers, and the burn names the domain of the destination's
C27_BurnChainDiffers ==
    run.mode = "transfer" /\ Len(run.calls) >= 2 =>
        /\ run.destinationWallet.blockchain # run.sourceWallet.blockchain
        /\ BurnDomain(run) = AgreedDomain(run.destinationWallet.blockchain)
        /\ run.attKey[1] # NoDomain =>
             run.attKey[1] = AgreedDomain(run.sourceWallet.blockchain)

\* a blockchain has a CCTP domain id and a MessageTransmitter address
Resolves(blockchain) ==
    /\ getCCTPDomainId(blockchain) # NoDomain
    /\ getMessageTransmitterAddress(blockchain) # Unsupported

\* C28: every blockchain of SUPPORTED_NETWORKS, hence every wallet that
\* passed the supported-network filter of the transfer or the recovery, has a
\* CCTP domain id and a MessageTransmitter address, and so has the source
\* blockchain of a recovery; no run fails on an unsupported blockchain.
C28_SupportedChainsResolve ==
    /\ \A blockchain \in SUPPORTED_NETWORKS : Resolves(blockchain)
    /\ \A i \in 1..Len(run.supportedWallets) : Resolves(run.supportedWallets[i].blockchain)
    /\ \A i \in 1..Len(run.destinationWallets) : Resolves(run.destinationWallets[i].blockchain)
    /\ run.sourceBlockchain # Undefined => Resolves(run.sourceBlockchain)
    /\ run.error # Unsupported
    /\ run.pc # "thrown"

C28_Witness ==
    /\ run.mode = "transfer" /\ Len(run.calls) = 3
    /\ run.destinationWallet.blockchain = "AVAX"
    /\ run.calls[3].contractAddress = getMessageTransmitterAddress("AVAX")
    /\ run.outcome = "CROSS-CHAIN TRANSFER COMPLETED SUCCESSFULLY"

\* C29: a recovery polls the attestation under the domain of the source
\* blockchain chosen at the prompt: ETH-SEPOLIA (0) for the answer 1,
\* MATIC-AMOY (7) for the answer 2; after any other answer it does not start
\* the attestation poll.
C29_SourceChoiceDecidesDomain ==
    run.mode = "recover" /\ run.sourceBlockchain # Undefined =>
        /\ run.sourceChoice = <<"1">> =>
             /\ run.sourceBlockchain = "ETH-SEPOLIA"
             /\ run.attKey[1] \in {NoDomain, AgreedDomain("ETH-SEPOLIA")}
        /\ run.sourceChoice = <<"2">> =>
             /\ run.sourceBlockchain = "MATIC-AMOY"
             /\ run.attKey[1] \in {NoDomain, AgreedDomain("MATIC-AMOY")}
        /\ run.sourceChoice \notin {<<"1">>, <<"2">>} =>
             /\ run.attKey[1] = NoDomain
             /\ run.loop # "Attestation"

\* what holds instead: every answer but 1 selects MATIC-AMOY, and the
\* attestation is polled under the domain of the blockchain selected
C29_AnythingButOneIsAmoy ==
    run.mode = "recover" /\ run.sourceBlockchain # Undefined =>
        /\ run.sourceBlockchain =
             IF run.sourceChoice = <<"1">> THEN "ETH-SEPOLIA" ELSE "MATIC-AMOY"
        /\ run.attKey[1] \in {NoDomain, AgreedDomain(run.sourceBlockchain)}

RequiredHash == "Burn transaction hash is required for recovery"

\* C30: a recovery whose burn hash answer is empty or blank ends at once
\* with the message that the hash is required: no wallet listing is
\* requested, no attestation poll is started and no mint is submitted.
C30_BlankHashRejected ==
    /\ [](run.mode = "recover" /\ run.burnTxHash = "" =>
            /\ run.pc = "done" /\ run.outcome = RequiredHash /\ run.exit = "0"
            /\ run.pending = 0 /\ run.allWallets = <<>> /\ run.sourceBlockchain = Undefined
            /\ run.attKey = <<NoDomain, Undefined>> /\ run.loop = "none" /\ run.queries = 0
            /\ run.calls = <<>>)
    /\ [](run.outcome = RequiredHash => run.mode = "recover" /\ run.burnTxHash = "")
    /\ [][run.mode = "recover" /\ run.pc = "burnHash" /\ run'.pc = "sourceChain"
            => run'.burnTxHash \in Hashes]_vars

C30_Witness ==
    run.mode = "recover" /\ run.burnTxHash = "" /\ run.outcome = RequiredHash

\* the transaction polls a run has entered
PollsEntered(s) == {step \in TxSteps : Has(s.trace, <<"poll", step>>)}

\* a bound on the status queries a run has made: maxAttempts for each poll
\* it has left, and the queries of the poll it is in
TxQueriesBound(s) ==
    IF s.loop \in TxSteps
    THEN (Cardinality(PollsEntered(s)) - 1) * TxMaxAttempts + s.queries
    ELSE Cardinality(PollsEntered(s)) * TxMaxAttempts

\* C31: when every external call and prompt returns, every run of the tool,
\* a transfer and a recovery included, ends; a poll makes at most maxAttempts
\* requests and is entered at most once per step, a transfer enters at most
\* the approval, burn and mint polls and one attestation poll, a recovery
\* the attestation poll and the mint poll only: at most 3 * 40 (transfer) or
\* 40 (recovery) status queries and 40 attestation requests.
C31_TerminatesWithinBudget ==
    /\ <>(run.pc = "done")
    /\ [](/\ run.loop \in TxSteps => run.queries <= TxMaxAttempts
          /\ run.loop = "Attestation" => run.queries <= AttMaxAttempts
          /\ \A step \in TxSteps : Count(run.trace, <<"poll", step>>) <= 1
          /\ Count(run.trace, <<"attest", "start">>) <= 1
          /\ run.mode = "recover" => PollsEntered(run) \subseteq {"Mint"}
          /\ TxQueriesBound(run) <=
               (IF run.mode = "recover" THEN 1 ELSE Cardinality(TxSteps)) * TxMaxAttempts)
    /\ [][run'.queries # run.queries =>
            \/ run'.queries = run.queries + 1 /\ run'.loop = run.loop
            \/ run'.queries = 0 /\ run'.trace # run.trace]_vars

C31_Witness ==
    /\ run.mode = "transfer" /\ run.pc = "done" /\ run.loop = "Mint"
    /\ PollsEntered(run) = TxSteps /\ run.queries = TxMaxAttempts
    /\ TxQueriesBound(run) = Cardinality(TxSteps) * TxMaxAttempts

\* the option of the menu that calls an operation
OptionOf(operation) ==
    CASE operation = "list" -> Typed(1)
      [] operation = "createWalletSet" -> Typed(2)
      [] OTHER -> Typed(3)

\* C32: the menu loop of the wallet manager keeps running after every option
\* other than Exit, an invalid option and an operation that ended in its
\* catch block included: a run that was initialised and not interrupted is
\* over only when option 4 was selected, it then exits with code 0, and
\* after the pause that follows every other option the menu is shown again;
\* one call of showMenu calls at most one of the three operations, the one
\* of the selected option.
C32_MenuLoopEndsOnlyOnExit ==
    /\ [](/\ run.exit \in {"running", "0"}
          /\ run.pc = "done" <=> run.exit = "0"
          /\ run.pc = "done" /\ ~run.signal /\ run.outcome # "Failed to initialize"
                => run.choice = Typed(4) /\ ~run.continueRunning
          /\ ~run.continueRunning => run.choice = Typed(4)
          /\ Len(run.ops) <= 1
          /\ \A k \in 1..Len(run.ops) :
                run.ops[k] \in Operations /\ run.choice = OptionOf(run.ops[k])
          /\ run.pc \notin {"init", "menu", "waitForUser", "done"} => Len(run.ops) = 1)
    /\ [][run.pc = "waitForUser" /\ run' # run
            => \/ run'.signal
               \/ run'.pc = "menu" /\ run'.continueRunning /\ run'.ops = <<>>]_vars
    /\ [][run.pc = "menu" /\ run' # run /\ ~run'.signal /\ run'.choice # Typed(4)
            => run'.pc # "done" /\ run'.continueRunning]_vars

\* the menu is shown again after an operation ended in its catch block
C32_Witness ==
    /\ run.tool = "wallet-manager"
    /\ run.pc = "menu"
    /\ run.outcome = "Error creating wallet"
    /\ run.continueRunning
    /\ run.ops = <<>>

\* the position of the first occurrence of an event in a log, 0 if none
RECURSIVE IndexOf(_, _)
IndexOf(seq, e) ==
    IF seq = <<>> THEN 0
    ELSE IF Head(seq) = e THEN 1
    ELSE IF IndexOf(Tail(seq), e) = 0 THEN 0
    ELSE 1 + IndexOf(Tail(seq), e)

\* the secrets a run generated
SecretsGenerated(s) == {secret \in GeneratedSecrets : Has(s.log, <<"generated", secret>>)}

\* C33: in setupEntitySecret the .env file only grows by the line of the
\* newly generated entity secret, appended in the step in which the
\* registration of that secret resolved (in the log the secret is generated,
\* then registered, then saved); when the test of the configured secret
\* passed, at once or after its registration, the run is over with no
\* secret generated and the .env file as it was.
C33_SavedOnlyAfterRegistration ==
    /\ [](/\ \A secret \in GeneratedSecrets :
                Has(run.env, envContent(secret)) =>
                    /\ secret = run.entitySecret
                    /\ secret \in run.registered
                    /\ 0 < IndexOf(run.log, <<"generated", secret>>)
                    /\ IndexOf(run.log, <<"generated", secret>>)
                          < IndexOf(run.log, <<"registered", secret>>)
                    /\ IndexOf(run.log, <<"registered", secret>>)
                          < IndexOf(run.log, <<"saved", secret>>)
          /\ run.env \in {run.envStart, Append(run.envStart, envContent(run.entitySecret))}
          /\ Has(run.log, <<"test", "passed">>) =>
                /\ run.pc = "done"
                /\ SecretsGenerated(run) = {}
                /\ run.entitySecret = Undefined
                /\ run.env = run.envStart)
    /\ [][run'.env # run.env =>
            /\ run.pc = "register"
            /\ run.entitySecret \in GeneratedSecrets
            /\ run.entitySecret \notin run.registered
            /\ run.entitySecret \in run'.registered
            /\ run'.env = Append(run.env, envContent(run.entitySecret))]_vars

\* a new secret was generated after the configured one failed its test, was
\* registered and is saved
C33_Witness ==
    /\ run.tool = "setup-entity-secret"
    /\ run.configured # NoSecret
    /\ run.pc = "done"
    /\ run.entitySecret \in GeneratedSecrets
    /\ run.entitySecret \in run.registered
    /\ run.outcome = "Entity Secret works"
    /\ Last(run.env) = envContent(run.entitySecret)

====
